---------------------------- MODULE Spec2Model ----------------------------
(***************************************************************************)
(* A model of OptiProfiler's perturbation model (features.py) and of the   *)
(* benchmark reduction of profiles.py.                                     *)
(*                                                                         *)
(* Python values are records [ty, k, n, s]: ty is the Python type, k the   *)
(* float class (fin, nan, pinf, ninf), n the integer value (an int) or the *)
(* value in units of 1/FloatScale (a float), s the text of a str or the    *)
(* identity of a callable.                                                 *)
(***************************************************************************)
EXTENDS Integers, Sequences, FiniteSets, TLC

VARIABLES
    c_name,      \* Feature.__init__: the feature_name argument
    c_options,   \* Feature.__init__: the keyword options, in call order
    c_result,    \* Feature.__init__: the object built, or the exception
    feature,     \* the Feature whose modifier is called
    eval_x,      \* the point of the evaluation that is perturbed
    eval_f,      \* the objective function value there
    rng_streams, \* numpy: the stream of each seeded generator derived so far
    calls,       \* the calls made on the feature, with their outcomes
    fun_values,  \* _compute_merit_values: the objective values (flattened)
    maxcv_values,\* _compute_merit_values: the constraint violations
    merit_array, \* the result of the array form, once computed
    merit_scalar,\* the result of the scalar form on the first pair, once computed
    merit_values,\* create_profiles: the merit history of each (solver, run) of a problem
    merit_init,  \* the merit value at the initial point of the problem
    merit_min,   \* the least merit value of the problem
    i_profile,   \* the number of tolerances whose work has been extracted
    work,        \* the work array of each tolerance handled so far
    pc,          \* create_profiles: the step the call has reached
    solvers,     \* the solvers argument
    labels,      \* the labels argument
    cutest_problem_names, \* the cutest_problem_names argument
    extra_problems,       \* the extra_problems argument
    feature_name,         \* the feature_name argument
    kwargs,      \* the keyword arguments, in call order
    feature_options,      \* the feature options collected from kwargs
    cutest_problem_options, \* the problem options collected from kwargs
    profile_options,      \* the profile options collected from kwargs
    raised,      \* the exception create_profiles ended with, "none" if none
    i_problem,   \* _solve_all: the number of problems handed to _solve_one
    problems_loaded,      \* the names of the problems loaded so far
    i_run,       \* _solve_one: the number of solver runs made on the problem
    solver_runs, \* the solver runs made so far, as <<problem, solver, run>>
    work_array,  \* the profiles of a tolerance: work[i_problem][i_solver][i_run]
    n_runs,      \* the number of runs of work_array
    problem_dimensions,   \* the dimension of each problem of work_array
    axes_built,  \* how far the profiles of the tolerance are built
    perf,        \* the performance profile: what _profile_axes returned, x_perf, y_perf
    data,        \* the data profile: what _profile_axes returned, x_data, y_data
    log_ratio,   \* the log-ratio profile
    loadable,    \* the sweep: the CUTEst names that load_cutest_problem can load
    results,     \* _solve_all: what _solve_one returned for each problem so far
    solving,     \* _solve_one: the arrays of the problem in hand, with how each run ended
    solved,      \* what _solve_all returned
    problems_txt \* the names written to the problems file

featureVars == <<c_name, c_options, c_result, feature, eval_x, eval_f, rng_streams, calls>>
meritVars == <<fun_values, maxcv_values, merit_array, merit_scalar>>
workVars == <<merit_values, merit_init, merit_min, i_profile, work>>
argumentVars ==
    <<solvers, labels, cutest_problem_names, extra_problems, feature_name, kwargs>>
optionVars == <<feature_options, cutest_problem_options, profile_options>>
solveVars == <<i_problem, problems_loaded, i_run, solver_runs>>
profileVars == <<pc, argumentVars, optionVars, raised, solveVars>>
axesVars == <<work_array, n_runs, problem_dimensions, axes_built, perf, data, log_ratio>>
sweepVars == <<loadable, results, solving, solved, problems_txt>>
featureCallVars == <<c_name, c_options, c_result, eval_x, eval_f, rng_streams, calls>>

(***************************************************************************)
(* Python values.                                                          *)
(***************************************************************************)
FloatScale == 10 ^ 6

PyInt(i) == [ty |-> "int", k |-> "fin", n |-> i, s |-> ""]
PyFloat(u) == [ty |-> "float", k |-> "fin", n |-> u, s |-> ""]
PyWhole(i) == PyFloat(i * FloatScale)
PyNaN == [ty |-> "float", k |-> "nan", n |-> 0, s |-> ""]
PyPosInf == [ty |-> "float", k |-> "pinf", n |-> 0, s |-> ""]
PyNegInf == [ty |-> "float", k |-> "ninf", n |-> 0, s |-> ""]
PyStr(t) == [ty |-> "str", k |-> "fin", n |-> 0, s |-> t]
PyCallable(t) == [ty |-> "callable", k |-> "fin", n |-> 0, s |-> t]
PyNone == [ty |-> "NoneType", k |-> "fin", n |-> 0, s |-> ""]

IsNumber(v) == v.ty \in {"int", "float"}
IsFinite(v) == v.k = "fin"
\* float.is_integer(): false on NaN and the infinities
IsIntegerFloat(v) == v.ty = "float" /\ v.k = "fin" /\ v.n % FloatScale = 0
\* int(v) of a whole-valued float
IntOf(v) == PyInt(v.n \div FloatScale)
\* the value of a finite number in units of 1/FloatScale
Units(v) == IF v.ty = "int" THEN v.n * FloatScale ELSE v.n
\* a < b and a <= b of Python numbers: every comparison with NaN is false
NumLt(a, b) ==
    CASE a.k = "nan" \/ b.k = "nan" -> FALSE
      [] a.k = "pinf" \/ b.k = "ninf" -> FALSE
      [] a.k = "ninf" \/ b.k = "pinf" -> TRUE
      [] OTHER -> Units(a) < Units(b)
NumLe(a, b) ==
    CASE a.k = "nan" \/ b.k = "nan" -> FALSE
      [] a.k = "ninf" \/ b.k = "pinf" -> TRUE
      [] a.k = "pinf" \/ b.k = "ninf" -> FALSE
      [] OTHER -> Units(a) <= Units(b)

\* str.lower() on the strings the model passes around
Lower(t) ==
    CASE t = "PLAIN" -> "plain"
      [] t = "N_RUNS" -> "n_runs"
      [] t = "Absolute" -> "absolute"
      [] t = "RELATIVE" -> "relative"
      [] OTHER -> t

(***************************************************************************)
(* settings: the closed sets of names.                                     *)
(***************************************************************************)
FeatureName ==
    {"plain", "custom", "noisy", "randomize_x0", "regularized", "tough", "truncated"}
FeatureOptionKey ==
    {"distribution", "modifier", "n_runs", "order", "parameter", "rate_error",
     "rate_nan", "significant_digits", "type"}
NoiseType == {"absolute", "relative"}

(***************************************************************************)
(* Feature.__init__                                                        *)
(***************************************************************************)
EmptyDict == [key \in {} |-> PyNone]
Put(d, key, v) == [x \in DOMAIN d \cup {key} |-> IF x = key THEN v ELSE d[x]]
SetDefault(d, key, v) == IF key \in DOMAIN d THEN d ELSE Put(d, key, v)

Raised(e) == [raised |-> e, name |-> "", options |-> EmptyDict]
Built(nm, opts) == [raised |-> "none", name |-> nm, options |-> opts]

\* known_options of the loop body
KnownOptions(name) ==
    {"n_runs"} \cup
    (CASE name = "custom" -> {"modifier"}
       [] name = "noisy" -> {"distribution", "type"}
       [] name = "randomize_x0" -> {"distribution"}
       [] name = "regularized" -> {"order", "parameter"}
       [] name = "tough" -> {"rate_error", "rate_nan"}
       [] name = "truncated" -> {"significant_digits"}
       [] OTHER -> {})

\* the value a positive-integer option is checked and stored as
CoerceInt(v) == IF IsIntegerFloat(v) THEN IntOf(v) ELSE v
Coerce(key, v) == IF key \in {"n_runs", "significant_digits"} THEN CoerceInt(v) ELSE v

\* the exception the value check of one option raises ("none": it passes)
CheckValue(key, v) ==
    CASE key \in {"n_runs", "significant_digits"} ->
            IF CoerceInt(v).ty # "int" \/ CoerceInt(v).n <= 0 THEN "TypeError" ELSE "none"
      [] key \in {"modifier", "distribution"} ->
            IF v.ty # "callable" THEN "TypeError" ELSE "none"
      [] key = "order" ->
            IF ~IsNumber(v) THEN "TypeError" ELSE "none"
      [] key = "parameter" ->
            IF ~IsNumber(v) \/ NumLt(v, PyFloat(0)) THEN "TypeError" ELSE "none"
      [] key \in {"rate_error", "rate_nan"} ->
            IF ~IsNumber(v) \/ ~(NumLe(PyFloat(0), v) /\ NumLe(v, PyWhole(1)))
            THEN "TypeError" ELSE "none"
      [] key = "type" ->
            IF v.ty # "str" \/ Lower(v.s) \notin NoiseType THEN "TypeError" ELSE "none"
      [] OTHER -> "none"

\* the three checks of the loop body on one key, in the code's order
CheckOption(name, key, v) ==
    CASE key \notin FeatureOptionKey -> "ValueError"
      [] name \notin FeatureName -> "NotImplementedError"
      [] key \notin KnownOptions(name) -> "ValueError"
      [] OTHER -> CheckValue(key, v)

\* the loop over self._options: the first exception, else the coerced dict
RECURSIVE CheckOptions(_, _, _)
CheckOptions(name, opts, done) ==
    IF opts = <<>> THEN Built(name, done)
    ELSE LET key == Lower(Head(opts)[1])
             v == Head(opts)[2]
             e == CheckOption(name, key, v)
         IN IF e # "none" THEN Raised(e)
            ELSE CheckOptions(name, Tail(opts), Put(done, key, Coerce(key, v)))

DefaultNoise == PyCallable("default_noise")
DefaultX0Noise == PyCallable("default_x0_noise")

SetDefaultOptions(name, o) ==
    CASE name = "plain" -> Built(name, SetDefault(o, "n_runs", PyInt(1)))
      [] name = "custom" ->
            IF "modifier" \notin DOMAIN o THEN Raised("TypeError")
            ELSE Built(name, SetDefault(o, "n_runs", PyInt(1)))
      [] name = "noisy" ->
            Built(name, SetDefault(SetDefault(SetDefault(o,
                "distribution", DefaultNoise), "n_runs", PyInt(10)),
                "type", PyStr("relative")))
      [] name = "randomize_x0" ->
            Built(name, SetDefault(SetDefault(o,
                "distribution", DefaultX0Noise), "n_runs", PyInt(10)))
      [] name = "regularized" ->
            Built(name, SetDefault(SetDefault(SetDefault(o,
                "n_runs", PyInt(1)), "order", PyInt(2)), "parameter", PyWhole(1)))
      [] name = "tough" ->
            Built(name, SetDefault(SetDefault(SetDefault(o,
                "n_runs", PyInt(10)), "rate_error", PyFloat(0)),
                "rate_nan", PyFloat(FloatScale \div 20)))
      [] name = "truncated" ->
            Built(name, SetDefault(SetDefault(o,
                "n_runs", PyInt(10)), "significant_digits", PyInt(6)))
      [] OTHER -> Raised("NotImplementedError")

\* Feature(feature_name, **feature_options)
FeatureInit(nm, kw) ==
    IF nm.ty # "str" THEN Raised("TypeError")
    ELSE IF Lower(nm.s) \notin FeatureName THEN Raised("ValueError")
    ELSE LET checked == CheckOptions(Lower(nm.s), kw, EmptyDict)
         IN IF checked.raised # "none" THEN checked
            ELSE SetDefaultOptions(checked.name, checked.options)

(***************************************************************************)
(* Float arithmetic, to the resolution 1/FloatScale.                       *)
(***************************************************************************)
Abs(i) == IF i < 0 THEN -i ELSE i

FAdd(a, b) ==
    CASE a.k = "nan" \/ b.k = "nan" -> PyNaN
      [] a.k = "pinf" -> IF b.k = "ninf" THEN PyNaN ELSE PyPosInf
      [] a.k = "ninf" -> IF b.k = "pinf" THEN PyNaN ELSE PyNegInf
      [] b.k = "pinf" -> PyPosInf
      [] b.k = "ninf" -> PyNegInf
      [] OTHER -> PyFloat(Units(a) + Units(b))

\* the product of two finite values, in parts that stay within the integer width
MulUnits(a, b) ==
    LET ah == a \div 1000
        al == a % 1000
        bh == b \div FloatScale
        bl == b % FloatScale
        blh == bl \div 1000
        bll == bl % 1000
        t == ah * bll + al * blh
    IN a * bh + ah * blh + (t \div 1000) + (((t % 1000) * 1000 + al * bll) \div FloatScale)

FMul(a, b) ==
    IF a.k = "fin" /\ b.k = "fin" THEN PyFloat(MulUnits(Units(a), Units(b))) ELSE PyNaN

\* the integer square root, by bisection
RECURSIVE Bisect(_, _, _)
Bisect(v, lo, hi) ==
    IF hi - lo <= 1 THEN lo
    ELSE LET mid == (lo + hi) \div 2
         IN IF mid * mid <= v THEN Bisect(v, mid, hi) ELSE Bisect(v, lo, mid)
ISqrt(v) == Bisect(v, 0, 46340)

\* round(f, digits) in units: to the nearest multiple of m, ties to even
RoundTo(n, m) ==
    LET q == n \div m
        r == n % m
    IN IF 2 * r < m THEN q * m
       ELSE IF 2 * r > m THEN (q + 1) * m
       ELSE IF q % 2 = 0 THEN q * m ELSE (q + 1) * m

\* the number of decimal digits of n >= 1
RECURSIVE DecimalDigits(_)
DecimalDigits(n) == IF n < 10 THEN 1 ELSE 1 + DecimalDigits(n \div 10)

\* int(np.floor(np.log10(np.abs(f)))) of a finite f # 0
FloorLog10(f) == DecimalDigits(Abs(f.n)) - 1 - (DecimalDigits(FloatScale) - 1)

\* 10.0 ** (-digits) in units (0 below the resolution)
TenToMinus(digits) ==
    IF digits > DecimalDigits(FloatScale) - 1 THEN 0
    ELSE 10 ^ (DecimalDigits(FloatScale) - 1 - digits)

(***************************************************************************)
(* Feature.default_rng and the generators of numpy.  A generator is the    *)
(* stream of its raw draws, each one of Levels equally likely levels.      *)
(***************************************************************************)
Levels == 2
Draws == 0 .. (Levels - 1)
Streams == [1 .. 2 -> Draws]

PreprocessSeedNoCoercion(seed) == seed
\* the seed as preprocessed, and whether it is then accepted
PreprocessSeed(seed) == IF IsIntegerFloat(seed) THEN IntOf(seed) ELSE seed
SeedOk(seed) ==
    seed = PyNone \/ (PreprocessSeed(seed).ty = "int" /\ PreprocessSeed(seed).n >= 0)

\* the exception of default_rng(seed, *args) ("none": a generator is returned)
DefaultRngRaises(seed, args) ==
    IF ~SeedOk(seed) THEN "TypeError"
    ELSE IF \E i \in DOMAIN args : ~IsNumber(args[i]) THEN "TypeError"
    ELSE IF \E i \in DOMAIN args : ~IsFinite(args[i]) THEN "ValueError"
    ELSE "none"

RngKeyUnseeded(seed, args) == <<"entropy", 0, args>>
\* what the state of the generator returned is a function of; an absent seed
\* takes fresh entropy from the operating system
RngKey(seed, args) ==
    IF seed = PyNone THEN <<"entropy", 0, args>>
    ELSE <<"seed", PreprocessSeed(seed).n, args>>
IsSeeded(key) == key[1] = "seed"

\* rng.uniform() < rate, for the raw draw r
UniformBelow(r, rate) == NumLt(PyFloat((r * FloatScale) \div Levels), rate)
\* rng.uniform(0.0, width)
UniformUpTo(r, width) == (r * width) \div Levels
\* rng.standard_normal()
StandardNormal(r) == r - (Levels \div 2)

(***************************************************************************)
(* Feature.modifier                                                        *)
(***************************************************************************)
NdArray(dtype, elems) == [ty |-> "ndarray", dtype |-> dtype, elems |-> elems]
PyList(elems) == [ty |-> "list", dtype |-> "object", elems |-> elems]

\* sum(ord(letter) for letter in type)
OrdSum(t) ==
    CASE t = "absolute" -> 863
      [] t = "Absolute" -> 831
      [] t = "relative" -> 860
      [] t = "RELATIVE" -> 604
      [] OTHER -> 0

\* np.linalg.norm(x, order) for the orders 1 and 2, the root to three decimals
RECURSIVE SumOver(_, _)
SumOver(elems, order) ==
    IF elems = <<>> THEN 0
    ELSE (IF order = 1 THEN Abs(Head(elems).n)
          ELSE MulUnits(Head(elems).n, Head(elems).n)) + SumOver(Tail(elems), order)
Norm(x, order) ==
    IF Units(order) = FloatScale THEN PyFloat(SumOver(x.elems, 1))
    ELSE PyFloat(1000 * ISqrt(SumOver(x.elems, 2)))

\* the arguments of default_rng after the seed, per feature ("none": no generator)
RngArgs(feat, x, f) ==
    CASE feat.name = "noisy" -> <<f, PyInt(OrdSum(feat.options["type"].s))>> \o x.elems
      [] feat.name = "tough" ->
            <<f, feat.options["rate_error"], feat.options["rate_nan"]>> \o x.elems
      [] feat.name = "truncated" -> <<f, feat.options["significant_digits"]>> \o x.elems
      [] OTHER -> <<>>
UsesRng(feat) == feat.name \in {"noisy", "tough", "truncated"}

\* the configured distribution, called on a generator whose first draw is r
Distribution(fn, r) ==
    IF fn = PyCallable("const_one") THEN PyWhole(1)
    ELSE PyFloat((StandardNormal(r) * FloatScale) \div 1000)
\* the draws a distribution takes from the generator
DistributionDraws(fn) == IF fn = PyCallable("const_one") THEN 0 ELSE 1

Outcome(e, v, inv, used) == [raised |-> e, value |-> v, invoked |-> inv, used |-> used]
Invocation(fn, seed) == [fn |-> fn, seed |-> seed]

Noisy(feat, f, stream) ==
    LET sample == Distribution(feat.options["distribution"], stream[1])
        inv == <<Invocation(feat.options["distribution"], PyNone)>>
        used == DistributionDraws(feat.options["distribution"])
    IN IF feat.options["type"].s = "absolute"
       THEN Outcome("none", FAdd(f, sample), inv, used)
       ELSE Outcome("none", FMul(f, FAdd(PyWhole(1), sample)), inv, used)

Tough(feat, f, stream) ==
    IF UniformBelow(stream[1], feat.options["rate_error"])
    THEN Outcome("RuntimeError", PyNone, <<>>, 1)
    ELSE IF UniformBelow(stream[2], feat.options["rate_nan"])
    THEN Outcome("none", PyNaN, <<>>, 2)
    ELSE Outcome("none", f, <<>>, 2)

TruncatedDigits(feat, f) ==
    IF f.n = 0 THEN feat.options["significant_digits"].n - 1
    ELSE feat.options["significant_digits"].n - FloorLog10(f) - 1

\* round(f, digits): exact when digits is beyond the resolution
RoundDigits(f, digits) ==
    IF TenToMinus(digits) = 0 THEN f.n ELSE RoundTo(f.n, TenToMinus(digits))

TruncatedAlwaysAdds(feat, f, stream) ==
    LET digits == TruncatedDigits(feat, f)
        draw == UniformUpTo(stream[1], TenToMinus(digits))
    IN Outcome("none", PyFloat(RoundDigits(f, digits) + draw), <<>>, 1)

Truncated(feat, f, stream) ==
    LET digits == TruncatedDigits(feat, f)
        draw == UniformUpTo(stream[1], TenToMinus(digits))
    IN IF f.n >= 0
       THEN Outcome("none", PyFloat(RoundDigits(f, digits) + draw), <<>>, 1)
       ELSE Outcome("none", PyFloat(RoundDigits(f, digits) - draw), <<>>, 1)

\* the features whose modifier leaves f as it is
PassThroughPlainOnly == {"plain"}
PassThrough == {"plain", "randomize_x0"}

\* the perturbation of a call that passed the preprocessing
Perturb(feat, x, f, seed, stream) ==
    CASE feat.name = "custom" ->
            Outcome("none", FAdd(f, PyWhole(1)),
                    <<Invocation(feat.options["modifier"], seed)>>, 0)
      [] feat.name = "regularized" ->
            Outcome("none",
                    FAdd(f, FMul(feat.options["parameter"], Norm(x, feat.options["order"]))),
                    <<>>, 0)
      [] UsesRng(feat) ->
            IF DefaultRngRaises(seed, RngArgs(feat, x, f)) # "none"
            THEN Outcome(DefaultRngRaises(seed, RngArgs(feat, x, f)), PyNone, <<>>, 0)
            ELSE CASE feat.name = "noisy" -> Noisy(feat, f, stream)
                   [] feat.name = "tough" -> Tough(feat, f, stream)
                   [] OTHER -> Truncated(feat, f, stream)
      [] feat.name \in PassThrough -> Outcome("none", f, <<>>, 0)
      [] OTHER -> Outcome("NotImplementedError", PyNone, <<>>, 0)

\* feature.modifier(x, f, seed), the derived generator yielding stream
Modifier(feat, x, f, seed, stream) ==
    IF x.ty # "ndarray" THEN Outcome("TypeError", PyNone, <<>>, 0)
    ELSE IF f.ty # "float" THEN Outcome("TypeError", PyNone, <<>>, 0)
    ELSE IF ~SeedOk(seed) THEN Outcome("TypeError", PyNone, <<>>, 0)
    ELSE Perturb(feat, x, f, PreprocessSeed(seed), stream)

(***************************************************************************)
(* The calls of Feature(...) the construction specification makes.         *)
(***************************************************************************)
UserModifier == PyCallable("user_modifier")
ConstOne == PyCallable("const_one")

NameArgs ==
    {PyInt(1), PyStr("unknown"), PyStr("PLAIN")} \cup {PyStr(t) : t \in FeatureName}

OptionArgs ==
    {<<"n_runs", v>> : v \in {PyInt(5), PyInt(-1), PyInt(0), PyFloat(15 * 10 ^ 5),
                              PyWhole(2), PyStr("3")}}
    \cup {<<"N_RUNS", PyInt(3)>>, <<"foo", PyInt(1)>>}
    \cup {<<"significant_digits", v>> :
            v \in {PyInt(4), PyInt(-1), PyFloat(25 * 10 ^ 5), PyWhole(2)}}
    \cup {<<"rate_nan", v>> :
            v \in {PyFloat(5 * 10 ^ 5), PyWhole(-1), PyWhole(2), PyStr("1.0"), PyInt(1), PyNaN}}
    \cup {<<"rate_error", v>> : v \in {PyWhole(1), PyWhole(2)}}
    \cup {<<"modifier", v>> : v \in {UserModifier, PyWhole(1)}}
    \cup {<<"distribution", v>> : v \in {ConstOne, PyWhole(1)}}
    \cup {<<"type", v>> : v \in {PyStr("absolute"), PyStr("Absolute"), PyStr("+"), PyInt(1)}}
    \cup {<<"order", v>> : v \in {PyInt(2), PyStr("2")}}
    \cup {<<"parameter", v>> : v \in {PyWhole(1), PyWhole(-1)}}

\* keyword arguments: at most two, of different keys
KeywordArgs ==
    {<<>>} \cup {<<p>> : p \in OptionArgs}
    \cup {pq \in OptionArgs \X OptionArgs : Lower(pq[1][1]) # Lower(pq[2][1])}

NotCalled == [raised |-> "not called", name |-> "", options |-> EmptyDict]

InitConstruct ==
    /\ c_name = PyNone
    /\ c_options = <<>>
    /\ c_result = NotCalled

Construct ==
    /\ c_result = NotCalled
    /\ \E nm \in NameArgs, kw \in KeywordArgs :
        /\ c_name' = nm
        /\ c_options' = kw
        /\ c_result' = FeatureInit(nm, kw)
    /\ UNCHANGED <<feature, eval_x, eval_f, rng_streams, calls>>
    /\ UNCHANGED <<meritVars, workVars, profileVars, axesVars, sweepVars>>

(***************************************************************************)
(* The calls of feature.modifier and Feature.default_rng.                  *)
(***************************************************************************)
NCalls == 2

HalfRate == PyFloat(FloatScale \div 2)

\* the features the calls are made on, each built by Feature(...)
FeatureCalls ==
    {<<nm, <<>>>> : nm \in FeatureName \ {"custom"}}
    \cup {<<"custom", <<<<"modifier", UserModifier>>>>>>,
          <<"noisy", <<<<"type", PyStr("absolute")>>, <<"distribution", ConstOne>>>>>>,
          <<"noisy", <<<<"type", PyStr("Absolute")>>, <<"distribution", ConstOne>>>>>>,
          <<"noisy", <<<<"type", PyStr("absolute")>>>>>>,
          <<"tough", <<<<"rate_error", PyWhole(0)>>, <<"rate_nan", PyWhole(1)>>>>>>,
          <<"tough", <<<<"rate_error", PyWhole(1)>>, <<"rate_nan", HalfRate>>>>>>,
          <<"tough", <<<<"rate_error", HalfRate>>, <<"rate_nan", HalfRate>>>>>>,
          <<"truncated", <<<<"significant_digits", PyInt(4)>>>>>>}

Zeros2 == NdArray("float64", <<PyFloat(0), PyFloat(0)>>)
\* the evaluations that are perturbed: arrays x and floats f
PointArgs == {Zeros2, NdArray("float64", <<PyWhole(3), PyWhole(4)>>)}
ValueArgs ==
    {PyNaN, PyPosInf, PyNegInf, PyFloat(0), PyWhole(5),
     PyFloat(1234567), PyFloat(-1234567), PyFloat(1234565),
     PyFloat(123456789), PyFloat(-123456789), PyFloat(9999996)}
\* the arguments that are no array and no float, beside valid ones
InvalidPointArgs ==
    {NdArray("int64", <<[ty |-> "int64", k |-> "fin", n |-> 0, s |-> ""]>>),
     PyList(<<PyFloat(0), PyFloat(0)>>)}
InvalidValueArgs == {PyInt(1)}
ValidSeedArgs == {PyNone, PyInt(0), PyInt(1), PyWhole(1)}
SeedArgs == ValidSeedArgs \cup {PyInt(-1), PyFloat(15 * 10 ^ 5)}

NoStream == [i \in 1 .. 2 |-> 0]
\* the draws of a stream that a call took; the rest is not observed
Taken(stream, used) == [i \in 1 .. 2 |-> IF i <= used THEN stream[i] ELSE 0]

InitModifier ==
    /\ \E c \in FeatureCalls : feature = FeatureInit(PyStr(c[1]), c[2])
    /\ eval_x \in PointArgs
    /\ eval_f \in ValueArgs
    /\ rng_streams = [key \in {} |-> NoStream]
    /\ calls = <<>>

\* the calls whose arguments the preprocessing has to judge
ValidatedCalls ==
    {<<"plain", <<>>>>, <<"noisy", <<>>>>, <<"truncated", <<>>>>,
     <<"custom", <<<<"modifier", UserModifier>>>>>>,
     <<"noisy", <<<<"type", PyStr("absolute")>>, <<"distribution", ConstOne>>>>>>,
     <<"tough", <<<<"rate_error", HalfRate>>, <<"rate_nan", HalfRate>>>>>>}
InitValidation ==
    /\ \E c \in ValidatedCalls : feature = FeatureInit(PyStr(c[1]), c[2])
    /\ eval_x \in {Zeros2} \cup InvalidPointArgs
    /\ eval_f \in {PyWhole(5), PyNaN} \cup InvalidValueArgs
    /\ rng_streams = [key \in {} |-> NoStream]
    /\ calls = <<>>

\* the streams a newly derived generator can have: one known stream when the
\* key was derived before or no generator is derived at all
FreshStreams(key) ==
    IF UsesRng(feature) /\ ~(IsSeeded(key) /\ key \in DOMAIN rng_streams)
    THEN Streams ELSE {NoStream}

\* feature.modifier(eval_x, eval_f, seed): the derived generator repeats the
\* stream of its key when it is seeded, and has a fresh one otherwise
CallModifierWith(seeds) ==
    /\ Len(calls) < NCalls
    /\ \E seed \in seeds :
        \E fresh \in FreshStreams(RngKey(seed, RngArgs(feature, eval_x, eval_f))) :
        LET key == RngKey(seed, RngArgs(feature, eval_x, eval_f))
            stream == IF IsSeeded(key) /\ key \in DOMAIN rng_streams
                      THEN rng_streams[key] ELSE fresh
            out == Modifier(feature, eval_x, eval_f, seed, stream)
        IN /\ calls' = Append(calls, [kind |-> "modifier", seed |-> seed,
                                      args |-> <<>>, out |-> out])
           /\ rng_streams' =
                IF IsSeeded(key) /\ out.used > 0 /\ key \notin DOMAIN rng_streams
                THEN [q \in DOMAIN rng_streams \cup {key} |->
                        IF q = key THEN Taken(stream, out.used) ELSE rng_streams[q]]
                ELSE rng_streams
    /\ UNCHANGED <<feature, eval_x, eval_f, c_name, c_options, c_result>>
    /\ UNCHANGED <<meritVars, workVars, profileVars, axesVars, sweepVars>>

\* a call with a seed the preprocessing accepts, and one with any seed
CallModifier == CallModifierWith(ValidSeedArgs)
CallModifierAnySeed == CallModifierWith(SeedArgs)

ContextArgs == {<<>>, <<PyStr("arg")>>, <<PyWhole(1), PyInt(2)>>}

\* Feature.default_rng(seed, *args), called directly: no draw is taken
CallDefaultRng ==
    /\ Len(calls) < NCalls
    /\ \E seed \in SeedArgs, args \in ContextArgs :
        calls' = Append(calls, [kind |-> "default_rng", seed |-> seed, args |-> args,
                                out |-> Outcome(DefaultRngRaises(seed, args), PyNone, <<>>, 0)])
    /\ UNCHANGED <<feature, eval_x, eval_f, rng_streams, c_name, c_options, c_result>>
    /\ UNCHANGED <<meritVars, workVars, profileVars, axesVars, sweepVars>>

(***************************************************************************)
(* _compute_merit_values.  A constraint violation is a float in units of   *)
(* 1e-12, an objective or merit value a float in units of 1/FloatScale.    *)
(***************************************************************************)
\* 1e-12, the largest violation that counts as feasible
CvFeasible == 1
\* 1e-6, the least violation that counts as infeasible
CvInfeasible == 10 ^ 6
\* 1e8 * maxcv in units of the merit value, per unit of violation
PenaltyPerUnit == 100

IsInfeasibleStrict(cv) == NumLt(PyFloat(CvInfeasible), cv)
\* maxcv_values >= 1e-6
IsInfeasible(cv) == NumLe(PyFloat(CvInfeasible), cv)
\* (1e-12 < maxcv_values) & (maxcv_values < 1e-6)
IsAlmostFeasible(cv) == NumLt(PyFloat(CvFeasible), cv) /\ NumLt(cv, PyFloat(CvInfeasible))
\* 1e8 * maxcv
Penalty(cv) ==
    CASE cv.k = "fin" -> PyFloat(PenaltyPerUnit * cv.n)
      [] OTHER -> cv
\* np.nan_to_num(fun_values, nan=np.inf, posinf=np.inf, neginf=-np.inf)
NanToNum(f) == IF f.k = "nan" THEN PyPosInf ELSE f

\* one element of the array form
MeritElement(f, cv) ==
    IF IsInfeasible(cv) THEN PyPosInf
    ELSE IF IsAlmostFeasible(cv) THEN FAdd(NanToNum(f), Penalty(cv))
    ELSE NanToNum(f)
\* the array form: both arguments numpy arrays of one shape
MeritArray(fs, cvs) == [i \in DOMAIN fs |-> MeritElement(fs[i], cvs[i])]
\* the scalar form
MeritScalar(f, cv) ==
    IF NumLe(cv, PyFloat(CvFeasible)) THEN f
    ELSE IF NumLe(PyFloat(CvInfeasible), cv) THEN PyPosInf
    ELSE FAdd(f, Penalty(cv))

MaxLen == 2
FunArgs == {PyNaN, PyPosInf, PyNegInf, PyWhole(5), PyWhole(-3)}
MaxcvArgs ==
    {PyNaN, PyPosInf, PyFloat(0), PyFloat(CvFeasible), PyFloat(CvFeasible + 1),
     PyFloat(CvInfeasible - 1), PyFloat(CvInfeasible), PyFloat(10 ^ 9)}
NotComputed == <<>>

InitMerit ==
    /\ \E len \in 1 .. MaxLen :
        /\ fun_values \in [1 .. len -> FunArgs]
        /\ maxcv_values \in [1 .. len -> MaxcvArgs]
    /\ merit_array = NotComputed
    /\ merit_scalar = NotComputed

IdleMerit ==
    /\ fun_values = <<>>
    /\ maxcv_values = <<>>
    /\ merit_array = NotComputed
    /\ merit_scalar = NotComputed

\* _compute_merit_values(fun_values, maxcv_values) on the two arrays
ComputeMeritArray ==
    /\ merit_array = NotComputed
    /\ merit_array' = MeritArray(fun_values, maxcv_values)
    /\ UNCHANGED <<fun_values, maxcv_values, merit_scalar>>
    /\ UNCHANGED <<featureVars, workVars, profileVars, axesVars, sweepVars>>

\* _compute_merit_values(f, cv) on the scalars of the first pair
ComputeMeritScalar ==
    /\ merit_scalar = NotComputed
    /\ merit_scalar' = <<MeritScalar(fun_values[1], maxcv_values[1])>>
    /\ UNCHANGED <<fun_values, maxcv_values, merit_array>>
    /\ UNCHANGED <<featureVars, workVars, profileVars, axesVars, sweepVars>>

(***************************************************************************)
(* The work of each run, create_profiles' loop over the tolerances.  The   *)
(* model follows one problem; merit values are floats in units of          *)
(* 1/FloatScale and the tolerance of index i is 10^-i.                     *)
(***************************************************************************)
NSolvers == 2
NRuns == 1
NTolerances == 3
MaxEval == 2

\* 1 / tolerance
InverseTolerance(i) == 10 ^ i
\* p * m
Times(m, p) == IF IsFinite(m) THEN PyFloat(p * m.n) ELSE m
\* the builtin max(a, b): b when b > a, else a
PyMax(a, b) == IF NumLt(a, b) THEN b ELSE a
\* np.minimum(a, b) of two numbers that are not NaN
NpMinimum(a, b) == IF NumLt(b, a) THEN b ELSE a
\* np.min over values that are not NaN
RECURSIVE NpMinFrom(_, _)
NpMinFrom(values, i) ==
    IF i = Len(values) THEN values[i]
    ELSE NpMinimum(values[i], NpMinFrom(values, i + 1))
NpMin(values) == NpMinFrom(values, 1)
\* np.argmax of a boolean array: the 0-based index of the first True, 0 if none
RECURSIVE NpArgmaxFrom(_, _)
NpArgmaxFrom(flags, i) ==
    IF i > Len(flags) THEN 0
    ELSE IF flags[i] THEN i - 1
    ELSE NpArgmaxFrom(flags, i + 1)
NpArgmaxLast(flags) ==
    IF \E i \in DOMAIN flags : flags[i]
    THEN (CHOOSE i \in DOMAIN flags : flags[i] /\ \A j \in DOMAIN flags : flags[j] => j <= i) - 1
    ELSE 0
NpArgmax(flags) == NpArgmaxFrom(flags, 1)

ThresholdTimesSwapped(p, init, min) ==
    IF IsFinite(min)
    THEN PyMax(FAdd(Times(init, p - 1), min), Times(min, p))
    ELSE PyNegInf
\* p * threshold for the tolerance 1 / p
ThresholdTimes(p, init, min) ==
    IF IsFinite(min)
    THEN PyMax(FAdd(init, Times(min, p - 1)), Times(min, p))
    ELSE PyNegInf
\* merit <= threshold
BelowThreshold(m, p, init, min) == NumLe(Times(m, p), ThresholdTimes(p, init, min))
\* the body of the loop over the runs: NaN unless the run reaches the threshold
WorkOfRun(series, p, init, min) ==
    IF BelowThreshold(NpMin(series), p, init, min)
    THEN PyWhole(NpArgmax([j \in DOMAIN series |-> BelowThreshold(series[j], p, init, min)]) + 1)
    ELSE PyNaN

Runs == (1 .. NSolvers) \X (1 .. NRuns)
MeritArgs == {PyNegInf, PyFloat(0), PyFloat(10), PyPosInf}
MeritInitArgs == MeritArgs \cup {PyFloat(11), PyFloat(100)}
\* the least merit value of the plain run, when the feature is stochastic
MeritMinPlainArgs == {PyPosInf, PyNegInf, PyFloat(0)}
\* np.min(merit_values, (1, 2, 3)) for the problem
LeastMerit(values) ==
    CHOOSE m \in {values[r][j] : r \in Runs, j \in 1 .. MaxEval} :
        \A r \in Runs : \A j \in 1 .. MaxEval : NumLe(m, values[r][j])

InitWork ==
    /\ merit_values \in [Runs -> [1 .. MaxEval -> MeritArgs]]
    /\ merit_init \in MeritInitArgs
    /\ \E plain \in MeritMinPlainArgs : merit_min = NpMinimum(LeastMerit(merit_values), plain)
    /\ i_profile = 0
    /\ work = <<>>

IdleWork ==
    /\ merit_values = <<>>
    /\ merit_init = PyNone
    /\ merit_min = PyNone
    /\ i_profile = 0
    /\ work = <<>>

\* one iteration of the loop over the tolerances, up to the profile axes
ExtractWork ==
    /\ i_profile < NTolerances
    /\ i_profile' = i_profile + 1
    /\ work' = Append(work,
            [r \in Runs |-> WorkOfRun(merit_values[r], InverseTolerance(i_profile + 1),
                                      merit_init, merit_min)])
    /\ UNCHANGED <<merit_values, merit_init, merit_min>>
    /\ UNCHANGED <<featureVars, meritVars, profileVars, axesVars, sweepVars>>

(***************************************************************************)
(* create_profiles, from the call to the end of _solve_all.                *)
(***************************************************************************)
CUTEstProblemOptionKey == {"n_max"}
ProfileOptionKey == {"n_jobs", "benchmark_id"}

PyProblem(t) == [ty |-> "Problem", k |-> "fin", n |-> 0, s |-> t]
\* len(signature(solver).parameters) of the solvers the model passes
Parameters(solver) ==
    CASE solver.s = "two" -> 2
      [] solver.s = "three" -> 3
      [] OTHER -> 4
HasLen(v) == v.ty = "list"
Items(v) == {v.elems[i] : i \in DOMAIN v.elems}

\* the checks on solvers, labels and problems: the exception raised, if any
PreprocessRaises(sv, lb, names, extra) ==
    CASE ~HasLen(sv) \/ \E solver \in Items(sv) : solver.ty # "callable" -> "TypeError"
      [] Len(sv.elems) < 2 -> "ValueError"
      [] ~HasLen(lb) \/ \E label \in Items(lb) : label.ty # "str" -> "TypeError"
      [] Len(lb.elems) \notin {0, Len(sv.elems)} -> "ValueError"
      [] ~HasLen(names) \/ \E name \in Items(names) : name.ty # "str" -> "TypeError"
      [] ~HasLen(extra) \/ \E problem \in Items(extra) : problem.ty # "Problem" -> "TypeError"
      [] Len(names.elems) + Len(extra.elems) < 1 -> "ValueError"
      [] OTHER -> "none"

\* the loop over kwargs.items(): the three dicts, or the exception
RECURSIVE SplitOptions(_, _, _, _)
SplitOptions(kw, fo, co, po) ==
    IF kw = <<>> THEN [raised |-> "none", feature |-> fo, cutest |-> co, profile |-> po]
    ELSE LET key == Head(kw)[1]
             value == Head(kw)[2]
         IN CASE key \in FeatureOptionKey -> SplitOptions(Tail(kw), Put(fo, key, value), co, po)
              [] key \in CUTEstProblemOptionKey -> SplitOptions(Tail(kw), fo, Put(co, key, value), po)
              [] key \in ProfileOptionKey -> SplitOptions(Tail(kw), fo, co, Put(po, key, value))
              [] OTHER -> [raised |-> "ValueError", feature |-> fo, cutest |-> co, profile |-> po]

\* the defaults and the checks of the profile options
ProfileOptions(po) ==
    LET defaults == SetDefault(SetDefault(po, "n_jobs", PyInt(-1)), "benchmark_id", PyStr("."))
    IN IF IsIntegerFloat(defaults["n_jobs"])
       THEN Put(defaults, "n_jobs", IntOf(defaults["n_jobs"]))
       ELSE defaults
ProfileOptionsRaise(po) ==
    CASE po["n_jobs"].ty # "int" -> "TypeError"
      [] po["benchmark_id"].ty # "str" -> "TypeError"
      [] OTHER -> "none"

\* problem_names of _solve_all
ProblemNames == cutest_problem_names.elems \o extra_problems.elems

SolverArgs ==
    {PyNone, PyList(<<PyCallable("two")>>), PyList(<<PyCallable("two"), PyInt(1)>>),
     PyList(<<PyCallable("two"), PyCallable("four")>>),
     PyList(<<PyCallable("two"), PyCallable("three")>>)}
LabelArgs == {PyList(<<>>), PyList(<<PyStr("a")>>), PyList(<<PyStr("a"), PyStr("b")>>)}
ProblemNameArgs ==
    {PyList(<<>>), PyList(<<PyStr("A")>>), PyList(<<PyStr("A"), PyStr("B")>>),
     PyList(<<PyInt(1)>>)}
ExtraProblemArgs == {PyList(<<>>), PyList(<<PyProblem("EXTRA1")>>)}
ProfileFeatureArgs == {PyStr("plain"), PyStr("noisy"), PyStr("unknown"), PyInt(1)}
ProfileOptionArgs ==
    {<<"n_runs", PyInt(2)>>, <<"n_runs", PyInt(-1)>>, <<"rate_nan", HalfRate>>,
     <<"foo", PyInt(1)>>, <<"N_RUNS", PyInt(2)>>, <<"n_max", PyInt(2)>>,
     <<"n_jobs", PyInt(1)>>, <<"n_jobs", PyWhole(2)>>, <<"n_jobs", PyFloat(15 * 10 ^ 5)>>,
     <<"benchmark_id", PyStr("b")>>, <<"benchmark_id", PyInt(1)>>}
ProfileKeywordArgs ==
    {<<>>} \cup {<<p>> : p \in ProfileOptionArgs}
    \cup {pq \in ProfileOptionArgs \X ProfileOptionArgs : pq[1][1] # pq[2][1]}

InitProfiles ==
    /\ pc = "start"
    /\ solvers \in SolverArgs
    /\ labels \in LabelArgs
    /\ cutest_problem_names \in ProblemNameArgs
    /\ extra_problems \in ExtraProblemArgs
    /\ feature_name \in ProfileFeatureArgs
    /\ kwargs \in ProfileKeywordArgs
    /\ feature_options = EmptyDict
    /\ cutest_problem_options = EmptyDict
    /\ profile_options = EmptyDict
    /\ raised = "none"
    /\ i_problem = 0
    /\ problems_loaded = <<>>
    /\ i_run = 0
    /\ solver_runs = <<>>

IdleProfiles ==
    /\ pc = "idle"
    /\ solvers = PyNone
    /\ labels = PyNone
    /\ cutest_problem_names = PyNone
    /\ extra_problems = PyNone
    /\ feature_name = PyNone
    /\ kwargs = <<>>
    /\ feature_options = EmptyDict
    /\ cutest_problem_options = EmptyDict
    /\ profile_options = EmptyDict
    /\ raised = "none"
    /\ i_problem = 0
    /\ problems_loaded = <<>>
    /\ i_run = 0
    /\ solver_runs = <<>>

\* the step taken next, or the exception that ends the call
Goto(e, next) ==
    /\ raised' = e
    /\ pc' = IF e = "none" THEN next ELSE "raised"

\* the preprocessing of the solvers, the labels and the problems
PreprocessArguments ==
    /\ pc = "start"
    /\ Goto(PreprocessRaises(solvers, labels, cutest_problem_names, extra_problems), "feature")
    /\ labels' = IF PreprocessRaises(solvers, labels, cutest_problem_names, extra_problems) = "none"
                    /\ Len(labels.elems) = 0
                 THEN PyList([i \in DOMAIN solvers.elems |-> PyStr(solvers.elems[i].s)])
                 ELSE labels
    /\ UNCHANGED <<solvers, cutest_problem_names, extra_problems, feature_name, kwargs>>
    /\ UNCHANGED <<optionVars, solveVars, featureVars, meritVars, workVars, axesVars, sweepVars>>

\* feature = Feature(feature_name)
BuildFeature ==
    /\ pc = "feature"
    /\ LET built == FeatureInit(feature_name, <<>>)
       IN /\ Goto(built.raised, "options")
          /\ feature' = IF built.raised = "none" THEN built ELSE feature
    /\ UNCHANGED <<argumentVars, optionVars, solveVars, featureCallVars, meritVars, workVars, axesVars, sweepVars>>

\* the options taken from the keyword arguments, then the profile options
GetOptions ==
    /\ pc = "options"
    /\ LET split == SplitOptions(kwargs, EmptyDict, EmptyDict, EmptyDict)
       IN /\ feature_options' = split.feature
          /\ cutest_problem_options' = split.cutest
          /\ IF split.raised # "none"
             THEN /\ profile_options' = split.profile
                  /\ Goto(split.raised, "solve")
             ELSE /\ profile_options' = ProfileOptions(split.profile)
                  /\ Goto(ProfileOptionsRaise(ProfileOptions(split.profile)), "solve")
    /\ UNCHANGED <<argumentVars, solveVars, featureVars, meritVars, workVars, axesVars, sweepVars>>

\* _solve_one up to the loop over the solvers: load_cutest_problem may raise
\* ProblemError, and then the problem is left out
LoadProblem ==
    /\ pc = "solve"
    /\ i_problem < Len(ProblemNames)
    /\ i_problem' = i_problem + 1
    /\ i_run' = 0
    /\ LET problem == ProblemNames[i_problem + 1]
       IN \/ /\ problems_loaded' = Append(problems_loaded, problem.s)
             /\ pc' = "run"
          \/ /\ problem.ty # "Problem"
             /\ UNCHANGED <<problems_loaded, pc>>
    /\ UNCHANGED <<argumentVars, optionVars, raised, solver_runs>>
    /\ UNCHANGED <<featureVars, meritVars, workVars, axesVars, sweepVars>>

\* one pass of the loop over the solvers and the runs of the loaded problem
RunSolver ==
    /\ pc = "run"
    /\ LET runs == feature.options["n_runs"].n
           i_solver == (i_run \div runs) + 1
       IN IF Parameters(solvers.elems[i_solver]) \notin {2, 4, 8, 10}
          THEN /\ Goto("ValueError", "run")
               /\ UNCHANGED <<i_run, solver_runs>>
          ELSE /\ i_run' = i_run + 1
               /\ solver_runs' = Append(solver_runs,
                        <<i_problem, i_solver, (i_run % runs) + 1>>)
               /\ pc' = IF i_run + 1 = Len(solvers.elems) * runs THEN "solve" ELSE "run"
               /\ UNCHANGED raised
    /\ UNCHANGED <<argumentVars, optionVars, i_problem, problems_loaded>>
    /\ UNCHANGED <<featureVars, meritVars, workVars, axesVars, sweepVars>>

\* the end of _solve_all
EndSolve ==
    /\ pc = "solve"
    /\ i_problem = Len(ProblemNames)
    /\ pc' = "solved"
    /\ UNCHANGED <<argumentVars, optionVars, raised, solveVars>>
    /\ UNCHANGED <<featureVars, meritVars, workVars, axesVars, sweepVars>>

(***************************************************************************)
(* The profiles of one tolerance: _profile_axes, the boundary rows and the *)
(* log-ratio profile.  A y value is a number of problems, the numerator of *)
(* k / n_problems.  np.finfo(float).eps and its square are below the       *)
(* resolution of the floats: they are the two least positive values.       *)
(***************************************************************************)
Eps == PyFloat(2)
EpsSquared == PyFloat(1)
\* v ** 2.0
Square(v) == IF v = Eps THEN EpsSquared ELSE FMul(v, v)
Once(v) == v
\* 2.0 * v
Twice(v) == FAdd(v, v)
\* a / b of whole-valued counts; b may be +inf
Divide(a, b) ==
    CASE a.k = "nan" \/ b.k = "nan" -> PyNaN
      [] b.k = "pinf" -> PyFloat(0)
      [] OTHER -> PyFloat(a.n \div (b.n \div FloatScale))
\* the greatest of a set of numbers that holds no NaN
Greatest(values) == CHOOSE m \in values : \A v \in values : NumLe(v, m)
Least(values) == CHOOSE m \in values : \A v \in values : NumLe(m, v)
\* np.nanmax(values, initial=initial) and np.nanmin(values, initial=initial)
NanMax(values, initial) == Greatest({v \in values : v.k # "nan"} \cup {initial})
NanMin(values, initial) == Least({v \in values : v.k # "nan"} \cup {initial})

\* the place of element i in the sorted order: stable, ties in index order
RankUnstable(col, i) ==
    1 + Cardinality({j \in DOMAIN col :
            NumLt(col[j], col[i]) \/ (col[j] = col[i] /\ j > i)})
Rank(col, i) ==
    1 + Cardinality({j \in DOMAIN col :
            NumLt(col[j], col[i]) \/ (col[j] = col[i] /\ j < i)})
\* an array with its elements computed: the function as a tuple
Array(elements) == elements \o <<>>
\* np.argsort(col, kind='stable'), 1-based
ArgSort(col) == Array([pos \in DOMAIN col |-> CHOOSE i \in DOMAIN col : Rank(col, i) = pos])
\* np.take_along_axis(col, order, 0)
TakeAlong(col, order) == Array([pos \in DOMAIN col |-> col[order[pos]]])
\* np.sort(col)
Sort(col) == TakeAlong(col, ArgSort(col))

\* if n_problems > 0
HasProblemsAlways(n) == TRUE
HasProblems(n) == n > 0
\* np.linspace(1 / n_problems, 1.0, n_problems) raises on n_problems = 0
LinspaceRaises(n) == IF n = 0 THEN "ZeroDivisionError" ELSE "none"

NotInRun == -1
\* the loop that replaces the NaN of y by the value of the row before
RECURSIVE FillForward(_, _)
FillForward(column, i) ==
    IF column[i] # NotInRun THEN column[i]
    ELSE IF i > 1 THEN FillForward(column, i - 1) ELSE 0

\* _profile_axes(work, denominator)
ProfileAxes(w, n_p, n_s, n_r, denominator) ==
    LET rows == 1 .. n_p * n_r
        ratio == Array([r \in 1 .. n_r |-> Array([p \in 1 .. n_p |-> Array([s \in 1 .. n_s |->
                    Divide(w[p][s][r], denominator[p][r])])])])
        ratio_max == NanMax({ratio[r][p][s] : r \in 1 .. n_r, p \in 1 .. n_p, s \in 1 .. n_s}, Eps)
        \* x[np.isnan(x)] = np.inf, then np.sort(x, 1)
        sorted == Array([r \in 1 .. n_r |-> Array([s \in 1 .. n_s |->
                    Sort(Array([p \in 1 .. n_p |->
                        IF ratio[r][p][s].k = "nan" THEN PyPosInf ELSE ratio[r][p][s]]))])])
        \* the reshape to rows (i_run, i_problem), one column for each solver
        column == Array([s \in 1 .. n_s |-> Array([i \in rows |->
                    sorted[((i - 1) \div n_p) + 1][s][((i - 1) % n_p) + 1]])])
        sort_x == Array([s \in 1 .. n_s |-> ArgSort(column[s])])
        \* np.linspace on the rows of the run, NaN elsewhere
        linspace == Array([r \in 1 .. n_r |-> Array([i \in rows |->
                    IF (r - 1) * n_p < i /\ i <= r * n_p THEN i - (r - 1) * n_p
                    ELSE NotInRun])])
        taken == Array([s \in 1 .. n_s |-> Array([r \in 1 .. n_r |->
                    TakeAlong(linspace[r], sort_x[s])])])
    IN [raised |-> IF HasProblems(n_p) THEN LinspaceRaises(n_p) ELSE "none",
        ratio_max |-> ratio_max,
        sort_x |-> sort_x,
        x |-> Array([i \in rows |-> Array([s \in 1 .. n_s |-> column[s][sort_x[s][i]]])]),
        y |-> Array([i \in rows |-> Array([s \in 1 .. n_s |-> Array([r \in 1 .. n_r |->
                    FillForward(taken[s][r], i)])])])]

\* the rows handed to _draw_profile: unsolved entries at the sentinel, a leading
\* row at y = 0 and, with at least one problem, a trailing row at the sentinel
Delivered(axes, first, sentinel, n_p, n_s, n_r) ==
    [x |-> <<[s \in 1 .. n_s |-> first]>>
           \o [i \in DOMAIN axes.x |-> [s \in 1 .. n_s |->
                    IF axes.x[i][s].k \in {"pinf", "ninf"} THEN sentinel ELSE axes.x[i][s]]]
           \o (IF HasProblems(n_p) THEN <<[s \in 1 .. n_s |-> sentinel]>> ELSE <<>>),
     y |-> <<[s \in 1 .. n_s |-> [r \in 1 .. n_r |-> 0]]>>
           \o axes.y
           \o (IF HasProblems(n_p)
               THEN <<IF axes.y = <<>> THEN [s \in 1 .. n_s |-> [r \in 1 .. n_r |-> 0]]
                      ELSE axes.y[Len(axes.y)]>>
               ELSE <<>>)]

\* np.log2 of a work count
Log2(w) ==
    CASE w.n = FloatScale -> PyFloat(0)
      [] w.n = 2 * FloatScale -> PyFloat(FloatScale)
      [] w.n = 3 * FloatScale -> PyFloat(1584963)
      [] OTHER -> PyFloat(2 * FloatScale)
Negative(v) == PyFloat(-v.n)
AbsoluteValue(v) == PyFloat(Abs(v.n))

\* the log-ratio profile of two solvers
LogRatio(w, n_p, n_r) ==
    LET rows == 1 .. n_p * n_r
        work_flat == [i \in rows |-> [s \in 1 .. 2 |->
                        w[((i - 1) \div n_r) + 1][s][((i - 1) % n_r) + 1]]]
        log_ratio_finite == {i \in rows : IsFinite(work_flat[i][1]) /\ IsFinite(work_flat[i][2])}
        ratio_of(i) == FAdd(Log2(work_flat[i][1]), Negative(Log2(work_flat[i][2])))
        ratio_max == Greatest({AbsoluteValue(ratio_of(i)) : i \in log_ratio_finite} \cup {Eps})
        values == [i \in rows |->
                    CASE i \in log_ratio_finite -> ratio_of(i)
                      [] work_flat[i][1].k = "nan" /\ IsFinite(work_flat[i][2]) -> Twice(ratio_max)
                      [] IsFinite(work_flat[i][1]) /\ work_flat[i][2].k = "nan" ->
                            Negative(Twice(ratio_max))
                      [] OTHER -> PyFloat(0)]
    IN [ratio_max |-> ratio_max, values |-> values, log_ratio |-> Sort(values)]

MaxRows == 3
RunCounts == 1 .. 2
WorkArgs == {PyNaN, PyWhole(1), PyWhole(2)}
NotBuilt == <<>>

InitAxes ==
    /\ \E n_p \in 0 .. MaxRows :
        /\ n_runs \in {n_r \in RunCounts : n_p * n_r <= MaxRows}
        /\ work_array \in [1 .. n_p -> [1 .. NSolvers -> [1 .. n_runs -> WorkArgs]]]
        /\ problem_dimensions = [p \in 1 .. n_p |-> 1 + (p % 2)]
    /\ axes_built = 0
    /\ perf = NotBuilt
    /\ data = NotBuilt
    /\ log_ratio = NotBuilt

IdleAxes ==
    /\ work_array = <<>>
    /\ n_runs = 0
    /\ problem_dimensions = <<>>
    /\ axes_built = 0
    /\ perf = NotBuilt
    /\ data = NotBuilt
    /\ log_ratio = NotBuilt

\* np.nanmin(work[i_problem, :, i_run], initial=np.inf)
BestWork(p, r) == NanMin({work_array[p][s][r] : s \in 1 .. NSolvers}, PyPosInf)
\* problem_dimensions[i_problem] + 1
SimplexGradient(p, r) == PyWhole(problem_dimensions[p] + 1)

\* denominator(i_problem, i_run) for every problem and run of work_array
Denominators(Denominator(_, _)) ==
    Array([p \in 1 .. Len(work_array) |-> Array([r \in 1 .. n_runs |-> Denominator(p, r)])])
\* the axes of the performance and data profiles of the tolerance
BuildProfileAxes ==
    /\ axes_built = 0
    /\ axes_built' = 1
    /\ \E built \in {ProfileAxes(work_array, Len(work_array), NSolvers, n_runs, Denominators(BestWork))} :
            perf' = [built |-> built] @@
                    Delivered(built, PyWhole(1), Square(built.ratio_max),
                              Len(work_array), NSolvers, n_runs)
    /\ \E built \in {ProfileAxes(work_array, Len(work_array), NSolvers, n_runs, Denominators(SimplexGradient))} :
            data' = [built |-> built] @@
                    Delivered(built, PyFloat(0), Twice(built.ratio_max),
                              Len(work_array), NSolvers, n_runs)
    /\ UNCHANGED <<work_array, n_runs, problem_dimensions, log_ratio>>
    /\ UNCHANGED <<featureVars, meritVars, workVars, profileVars, sweepVars>>

\* the log-ratio profile of the tolerance, drawn for two solvers
BuildLogRatio ==
    /\ axes_built = 1
    /\ NSolvers = 2
    /\ axes_built' = 2
    /\ log_ratio' = LogRatio(work_array, Len(work_array), n_runs)
    /\ UNCHANGED <<work_array, n_runs, problem_dimensions, perf, data>>
    /\ UNCHANGED <<featureVars, meritVars, workVars, profileVars, sweepVars>>

(***************************************************************************)
(* The sweep: _solve_all and _solve_one with the histories of the runs,    *)
(* then the merit values, the names file and the profiles of each          *)
(* tolerance.  The problems are A, B (CUTEst names) and E (a Problem       *)
(* object); whether a CUTEst name loads is decided by the environment.  A  *)
(* solver is an external program: how many evaluations it makes and how it *)
(* ends are chosen freely, the values it is given are fixed by the problem.*)
(* The feature is the one handed to _solve_all: plain, or tough with a     *)
(* positive rate_error; both with n_runs = NRuns.                          *)
(***************************************************************************)
MaxEvalFactor == 1
\* problem.dimension, problem.fun(problem.x0), problem.maxcv(problem.x0)
Dimension(problem) == IF problem = "B" THEN 2 ELSE 1
FunInit(problem) ==
    CASE problem = "A" -> PyFloat(10)
      [] problem = "B" -> PyFloat(20)
      [] OTHER -> PyFloat(30)
MaxcvInit(problem) == PyFloat(0)
\* what evaluation j of a solver on the problem records
FunAt(problem, i_solver, j) == PyFloat(FunInit(problem).n - j * i_solver)
MaxcvAt(problem, i_solver, j) ==
    IF i_solver = 2 /\ j = 1 THEN PyFloat(CvInfeasible) ELSE PyFloat(0)
\* f'EXTRA{i_problem + 1}'
ExtraName(i) == "EXTRA" \o ToString(i)
\* the feature makes the evaluations fail at random
IsTough(name) == name = PyStr("tough")
\* feature.name in [FeatureName.NOISY, FeatureName.TOUGH, FeatureName.TRUNCATED]
IsStochastic(name) == name \in {PyStr("noisy"), PyStr("tough"), PyStr("truncated")}

\* how a solver call ends: it returns, an evaluation raises the RuntimeError of
\* the tough feature, or the solver itself raises
Endings(name) == {"returned", "raised"} \cup (IF IsTough(name) THEN {"simulated"} ELSE {})
\* what a FeaturedProblem holds after the call: the number of evaluations
\* recorded, at most max_eval; an evaluation that raises is not recorded
RunOutcomes(max_eval, name) ==
    {[n_eval |-> n, ending |-> e] : n \in 0 .. max_eval, e \in Endings(name)}
\* featured_problem.fun_history[:n] and featured_problem.maxcv_history[:n]
FunHistory(problem, i_solver, n) == [j \in 1 .. n |-> FunAt(problem, i_solver, j)]
MaxcvHistory(problem, i_solver, n) == [j \in 1 .. n |-> MaxcvAt(problem, i_solver, j)]

SuppressedSimulated(ending) == ending = "simulated"
\* with suppress(Exception): the exceptions that end the call without leaving it
Suppressed(ending) == ending \in {"simulated", "raised"}
\* a row of NaN of length len whose first n entries are set and, when n > 0,
\* whose other entries repeat the last of them
Padded(row, n, len) ==
    [j \in 1 .. len |-> IF j <= n THEN row[j] ELSE IF n > 0 THEN row[n] ELSE PyNaN]
\* what _solve_one returns for the problem in hand
ResultOf(locals) ==
    [fun_values |-> locals.fun_values, maxcv_values |-> locals.maxcv_values,
     fun_init |-> locals.fun_init, maxcv_init |-> locals.maxcv_init,
     n_eval |-> locals.n_eval, problem_name |-> locals.problem_name,
     dimension |-> locals.dimension]

LoadedFromEnd(rs) ==
    LET kept == SelectSeq(rs, LAMBDA r : r # PyNone)
    IN [i \in 1 .. Len(kept) |-> kept[Len(kept) + 1 - i]]
\* [result for result in results if result is not None]
Loaded(rs) == SelectSeq(rs, LAMBDA r : r # PyNone)
\* max(problem_dimensions)
MaxOf(numbers) == CHOOSE m \in numbers : \A v \in numbers : v <= m
\* _solve_all after the parallel section
SolveAll(rs, max_eval_factor) ==
    LET kept == IF \A i \in DOMAIN rs : rs[i] = PyNone THEN <<>> ELSE Loaded(rs)
        n_problems == Len(kept)
        dimensions == [p \in 1 .. n_problems |-> kept[p].dimension]
        max_eval == IF Len(dimensions) > 0
                    THEN max_eval_factor * MaxOf({dimensions[p] : p \in 1 .. n_problems})
                    ELSE 1
        widened(rows, p) ==
            [k \in DOMAIN rows |-> Padded(rows[k], max_eval_factor * dimensions[p], max_eval)]
    IN [fun_values |-> [p \in 1 .. n_problems |-> widened(kept[p].fun_values, p)],
        maxcv_values |-> [p \in 1 .. n_problems |-> widened(kept[p].maxcv_values, p)],
        fun_init |-> [p \in 1 .. n_problems |-> kept[p].fun_init],
        maxcv_init |-> [p \in 1 .. n_problems |-> kept[p].maxcv_init],
        n_eval |-> [p \in 1 .. n_problems |-> kept[p].n_eval],
        problem_names |-> [p \in 1 .. n_problems |-> kept[p].problem_name],
        problem_dimensions |-> dimensions,
        max_eval |-> max_eval]

\* the position of a run among the runs of a problem
RunIndex(i_solver, run) == (i_solver - 1) * NRuns + run
\* whether problem i of the listing loads, and its place among those that do
Loads(i) == ProblemNames[i].ty = "Problem" \/ ProblemNames[i].s \in loadable
Place(i) == Cardinality({k \in 1 .. i : Loads(k)})
\* the least merit value of a problem in the sweep with the plain feature, where
\* every run ends when its evaluations are used up
PlainLeast(problem) ==
    Least({MeritElement(FunAt(problem, s, j), MaxcvAt(problem, s, j)) :
            s \in 1 .. NSolvers, j \in 1 .. MaxEvalFactor * Dimension(problem)})

SweepNameArgs == {PyList(<<PyStr("A")>>), PyList(<<PyStr("A"), PyStr("B")>>)}
SweepExtraArgs == {PyList(<<>>), PyList(<<PyProblem("E")>>)}
SweepFeatureArgs == {PyStr("plain"), PyStr("tough")}

InitSweep ==
    /\ pc = "solve_one"
    /\ solvers = PyList(<<PyCallable("two"), PyCallable("four")>>)
    /\ labels = PyList(<<PyStr("a"), PyStr("b")>>)
    /\ cutest_problem_names \in SweepNameArgs
    /\ extra_problems \in SweepExtraArgs
    /\ feature_name \in SweepFeatureArgs
    /\ kwargs = <<>>
    /\ feature_options = EmptyDict
    /\ cutest_problem_options = EmptyDict
    /\ profile_options = EmptyDict
    /\ raised = "none"
    /\ i_problem = 0
    /\ problems_loaded = <<>>
    /\ i_run = 0
    /\ solver_runs = <<>>
    /\ loadable \in SUBSET {cutest_problem_names.elems[i].s : i \in DOMAIN cutest_problem_names.elems}
    /\ results = <<>>
    /\ solving = NotBuilt
    /\ solved = NotBuilt
    /\ problems_txt = NotBuilt
    \* no work array is waiting for its profiles
    /\ work_array = <<>>
    /\ n_runs = 0
    /\ problem_dimensions = <<>>
    /\ axes_built = 2
    /\ perf = NotBuilt
    /\ data = NotBuilt
    /\ log_ratio = NotBuilt

IdleSweep ==
    /\ loadable = {}
    /\ results = <<>>
    /\ solving = NotBuilt
    /\ solved = NotBuilt
    /\ problems_txt = NotBuilt

\* _solve_one up to the loop over the solvers: a Problem is taken as it is, a
\* name is loaded, and None is returned when load_cutest_problem raises
\* ProblemError
SolveLoad ==
    /\ pc = "solve_one"
    /\ i_problem < Len(ProblemNames)
    /\ i_problem' = i_problem + 1
    /\ i_run' = 0
    /\ LET problem == ProblemNames[i_problem + 1]
           name == IF problem.ty = "Problem"
                   THEN ExtraName(i_problem + 1 - Len(cutest_problem_names.elems))
                   ELSE problem.s
       IN IF problem.ty = "Problem" \/ problem.s \in loadable
          THEN /\ solving' = [problem |-> problem.s, problem_name |-> name,
                              fun_init |-> FunInit(problem.s),
                              maxcv_init |-> MaxcvInit(problem.s),
                              dimension |-> Dimension(problem.s),
                              runs |-> <<>>, n_eval |-> <<>>, fun_values |-> <<>>,
                              maxcv_values |-> <<>>, endings |-> <<>>]
               /\ pc' = "run_one"
               /\ UNCHANGED results
          ELSE /\ results' = Append(results, PyNone)
               /\ solving' = NotBuilt
               /\ UNCHANGED pc
    /\ UNCHANGED <<argumentVars, optionVars, raised, problems_loaded, solver_runs>>
    /\ UNCHANGED <<loadable, solved, problems_txt>>
    /\ UNCHANGED <<featureVars, meritVars, workVars, axesVars>>

\* one pass of the loop over the solvers and the runs: the solver call, then
\* n_eval and the histories copied and padded
SolveRun ==
    /\ pc = "run_one"
    /\ \E outcome \in RunOutcomes(MaxEvalFactor * solving.dimension, feature_name) :
        LET i_solver == (i_run \div NRuns) + 1
            max_eval == MaxEvalFactor * solving.dimension
            n == outcome.n_eval
        IN IF outcome.ending = "returned" \/ Suppressed(outcome.ending)
           THEN /\ solving' = [solving EXCEPT
                        !.runs = Append(@, <<i_solver, (i_run % NRuns) + 1>>),
                        !.n_eval = Append(@, n),
                        !.fun_values = Append(@,
                            Padded(FunHistory(solving.problem, i_solver, n), n, max_eval)),
                        !.maxcv_values = Append(@,
                            Padded(MaxcvHistory(solving.problem, i_solver, n), n, max_eval)),
                        !.endings = Append(@, outcome.ending)]
                /\ i_run' = i_run + 1
                /\ pc' = IF i_run + 1 = NSolvers * NRuns THEN "return_one" ELSE "run_one"
                /\ UNCHANGED raised
           ELSE /\ raised' = "RuntimeError"
                /\ pc' = "raised"
                /\ UNCHANGED <<solving, i_run>>
    /\ UNCHANGED <<argumentVars, optionVars, i_problem, problems_loaded, solver_runs>>
    /\ UNCHANGED <<loadable, results, solved, problems_txt>>
    /\ UNCHANGED <<featureVars, meritVars, workVars, axesVars>>

\* the return of _solve_one
SolveReturn ==
    /\ pc = "return_one"
    /\ results' = Append(results, ResultOf(solving))
    /\ pc' = "solve_one"
    /\ UNCHANGED <<argumentVars, optionVars, raised, solveVars>>
    /\ UNCHANGED <<loadable, solving, solved, problems_txt>>
    /\ UNCHANGED <<featureVars, meritVars, workVars, axesVars>>

\* _solve_all once every problem has been handed to _solve_one
Assemble ==
    /\ pc = "solve_one"
    /\ i_problem = Len(ProblemNames)
    /\ solved' = SolveAll(results, MaxEvalFactor)
    /\ solving' = NotBuilt
    /\ pc' = "merit"
    /\ UNCHANGED <<argumentVars, optionVars, raised, solveVars>>
    /\ UNCHANGED <<loadable, results, problems_txt>>
    /\ UNCHANGED <<featureVars, meritVars, workVars, axesVars>>

\* the merit values and the least merit value of each problem, merged with that
\* of the plain sweep when the feature is stochastic
ReduceMerit ==
    /\ pc = "merit"
    /\ merit_values' = [p \in DOMAIN solved.fun_values |->
            [k \in DOMAIN solved.fun_values[p] |->
                MeritArray(solved.fun_values[p][k], solved.maxcv_values[p][k])]]
    /\ merit_init' = MeritArray(solved.fun_init, solved.maxcv_init)
    /\ merit_min' = [p \in DOMAIN solved.fun_values |->
            LET least == Least({MeritElement(solved.fun_values[p][k][j],
                                             solved.maxcv_values[p][k][j]) :
                                    k \in DOMAIN solved.fun_values[p],
                                    j \in 1 .. solved.max_eval})
                problem == ProblemNames[CHOOSE i \in DOMAIN ProblemNames :
                                            Loads(i) /\ Place(i) = p].s
            IN IF IsStochastic(feature_name)
               THEN NpMinimum(least, PlainLeast(problem))
               ELSE least]
    /\ pc' = "names"
    /\ UNCHANGED <<i_profile, work>>
    /\ UNCHANGED <<argumentVars, optionVars, raised, solveVars>>
    /\ UNCHANGED <<featureVars, meritVars, axesVars, sweepVars>>

\* the names of the problems written to the problems file
StoreNames ==
    /\ pc = "names"
    /\ problems_txt' = solved.problem_names
    /\ pc' = "work"
    /\ UNCHANGED <<argumentVars, optionVars, raised, solveVars>>
    /\ UNCHANGED <<loadable, results, solving, solved>>
    /\ UNCHANGED <<featureVars, meritVars, workVars, axesVars>>

\* the work array of the next tolerance, once the profiles of the one before
\* are drawn
SweepWork ==
    /\ pc = "work"
    /\ axes_built = 2
    /\ i_profile < NTolerances
    /\ i_profile' = i_profile + 1
    /\ work_array' = [p \in DOMAIN merit_values |->
            [s \in 1 .. NSolvers |-> [r \in 1 .. NRuns |->
                WorkOfRun(merit_values[p][RunIndex(s, r)], InverseTolerance(i_profile + 1),
                          merit_init[p], merit_min[p])]]]
    /\ n_runs' = NRuns
    /\ problem_dimensions' = solved.problem_dimensions
    /\ axes_built' = 0
    /\ perf' = NotBuilt
    /\ data' = NotBuilt
    /\ log_ratio' = NotBuilt
    /\ UNCHANGED <<merit_values, merit_init, merit_min, work>>
    /\ UNCHANGED <<featureVars, meritVars, profileVars, sweepVars>>

vars == <<featureVars, meritVars, workVars, profileVars, axesVars, sweepVars>>

IdleModifier ==
    /\ feature = NotCalled
    /\ eval_x = PyNone
    /\ eval_f = PyNone
    /\ rng_streams = [key \in {} |-> NoStream]
    /\ calls = <<>>

\* each specification starts and moves one component; the others stay idle
ConstructInit == InitConstruct /\ IdleModifier /\ IdleMerit /\ IdleWork /\ IdleProfiles /\ IdleAxes /\ IdleSweep
ConstructNext == Construct
SpecConstruct == ConstructInit /\ [][ConstructNext]_vars

ModifierInit == InitModifier /\ InitConstruct /\ IdleMerit /\ IdleWork /\ IdleProfiles /\ IdleAxes /\ IdleSweep
ModifierNext == CallModifier
SpecModifier == ModifierInit /\ [][ModifierNext]_vars

ValidationInit == InitValidation /\ InitConstruct /\ IdleMerit /\ IdleWork /\ IdleProfiles /\ IdleAxes /\ IdleSweep
ValidationNext == CallModifierAnySeed \/ CallDefaultRng
SpecValidation == ValidationInit /\ [][ValidationNext]_vars

MeritInit == InitMerit /\ InitConstruct /\ IdleModifier /\ IdleWork /\ IdleProfiles /\ IdleAxes /\ IdleSweep
MeritNext == ComputeMeritArray \/ ComputeMeritScalar
SpecMerit == MeritInit /\ [][MeritNext]_vars

WorkInit == InitWork /\ InitConstruct /\ IdleModifier /\ IdleMerit /\ IdleProfiles /\ IdleAxes /\ IdleSweep
WorkNext == ExtractWork
SpecWork == WorkInit /\ [][WorkNext]_vars

ProfilesInit == InitProfiles /\ InitConstruct /\ IdleModifier /\ IdleMerit /\ IdleWork /\ IdleAxes /\ IdleSweep
ProfilesNext ==
    PreprocessArguments \/ BuildFeature \/ GetOptions \/ LoadProblem \/ RunSolver \/ EndSolve
SpecProfiles == ProfilesInit /\ [][ProfilesNext]_vars

AxesInit ==
    InitAxes /\ InitConstruct /\ IdleModifier /\ IdleMerit /\ IdleWork /\ IdleProfiles
    /\ IdleSweep
AxesNext == BuildProfileAxes \/ BuildLogRatio
SpecAxes == AxesInit /\ [][AxesNext]_vars

SweepInit == InitSweep /\ InitConstruct /\ IdleModifier /\ IdleMerit /\ IdleWork
SweepNext ==
    \/ SolveLoad \/ SolveRun \/ SolveReturn \/ Assemble \/ ReduceMerit \/ StoreNames
    \/ SweepWork \/ BuildProfileAxes \/ BuildLogRatio
SpecSweep == SweepInit /\ [][SweepNext]_vars

(***************************************************************************)
(* C1.  The error classes of Feature(...), as test_exceptions requires     *)
(* them.                                                                   *)
(***************************************************************************)
\* the class the claim gives the value of one option: TypeError for a value of
\* the wrong type, ValueError for one of the right type that is out of range
ClaimedValueError(key, v) ==
    CASE key \in {"n_runs", "significant_digits"} ->
            IF v.ty = "int" \/ IsIntegerFloat(v)
            THEN (IF CoerceInt(v).n <= 0 THEN "ValueError" ELSE "none")
            ELSE "TypeError"
      [] key \in {"modifier", "distribution"} ->
            IF v.ty # "callable" THEN "TypeError" ELSE "none"
      [] key = "order" -> IF ~IsNumber(v) THEN "TypeError" ELSE "none"
      [] key = "parameter" ->
            IF ~IsNumber(v) THEN "TypeError"
            ELSE IF NumLe(PyFloat(0), v) THEN "none" ELSE "ValueError"
      [] key \in {"rate_error", "rate_nan"} ->
            IF ~IsNumber(v) THEN "TypeError"
            ELSE IF NumLe(PyFloat(0), v) /\ NumLe(v, PyWhole(1)) THEN "none"
            ELSE "ValueError"
      [] key = "type" ->
            IF v.ty # "str" THEN "TypeError"
            ELSE IF Lower(v.s) \in NoiseType THEN "none" ELSE "ValueError"
      [] OTHER -> "none"

ClaimedOptionError(name, key, v) ==
    IF key \notin FeatureOptionKey \/ key \notin KnownOptions(name) THEN "ValueError"
    ELSE ClaimedValueError(key, v)

RECURSIVE ClaimedOptionsError(_, _)
ClaimedOptionsError(name, opts) ==
    IF opts = <<>> THEN "none"
    ELSE LET e == ClaimedOptionError(name, Lower(Head(opts)[1]), Head(opts)[2])
         IN IF e # "none" THEN e ELSE ClaimedOptionsError(name, Tail(opts))

ClaimedError(nm, opts) ==
    IF nm.ty # "str" THEN "TypeError"
    ELSE IF Lower(nm.s) \notin FeatureName THEN "ValueError"
    ELSE IF ClaimedOptionsError(Lower(nm.s), opts) # "none"
         THEN ClaimedOptionsError(Lower(nm.s), opts)
    ELSE IF Lower(nm.s) = "custom" /\ \A i \in DOMAIN opts : Lower(opts[i][1]) # "modifier"
         THEN "ValueError"
    ELSE "none"

\* C1: every call of Feature(...) ends as the claim says: the claimed error
\* class and no object in each invalid case, an object otherwise, with the
\* whole-valued floats of n_runs and significant_digits stored as integers.
C1_ErrorClassesAsTested ==
    c_result # NotCalled =>
        /\ c_result.raised = ClaimedError(c_name, c_options)
        /\ c_result.raised = "none" =>
              \A key \in DOMAIN c_result.options \cap {"n_runs", "significant_digits"} :
                  c_result.options[key].ty = "int"

(***************************************************************************)
(* The modifier calls of the log.                                          *)
(***************************************************************************)
ModifierCalls == {i \in DOMAIN calls : calls[i].kind = "modifier"}
DefaultRngCalls == {i \in DOMAIN calls : calls[i].kind = "default_rng"}
SameOutcome(a, b) == a.raised = b.raised /\ a.value = b.value

\* C3: for a feature named plain or randomize_x0, every modifier call on an
\* array x and a float f (NaN and the infinities included) with an accepted
\* seed returns exactly f and raises nothing.
C3_PlainReturnsF ==
    feature.name \in {"plain", "randomize_x0"} =>
        \A i \in ModifierCalls :
            /\ calls[i].out.raised = "none"
            /\ calls[i].out.value = eval_f

C3_Witness ==
    /\ feature.name = "randomize_x0"
    /\ eval_f = PyNaN
    /\ Len(calls) = 2
    /\ calls[1].seed = PyNone
    /\ calls[2].seed = PyWhole(1)
    /\ calls[2].out.value = PyNaN

\* C4: for the tough feature every modifier call ends in one of three ways: the
\* simulated failure, NaN returned, or f returned unchanged; with rate_error 0
\* and rate_nan 1 it never raises and returns NaN, with rate_error 1 it always
\* raises the simulated failure.
C4_ToughThreeOutcomes ==
    feature.name = "tough" =>
        \A i \in ModifierCalls :
            LET out == calls[i].out
                rate_error == feature.options["rate_error"]
                rate_nan == feature.options["rate_nan"]
            IN /\ \/ out.raised = "RuntimeError"
                  \/ out.raised = "none" /\ out.value = PyNaN
                  \/ out.raised = "none" /\ out.value = eval_f
               /\ (Units(rate_error) = 0 /\ Units(rate_nan) = FloatScale) =>
                    (out.raised = "none" /\ out.value = PyNaN)
               /\ Units(rate_error) = FloatScale => out.raised = "RuntimeError"

\* C5 as stated: for noisy, tough and truncated, two modifier calls with the
\* same seed argument (absent included), the same f and the same x end alike.
C5_SameSeedArgumentSameOutcome ==
    UsesRng(feature) =>
        \A i, j \in ModifierCalls :
            calls[i].seed = calls[j].seed => SameOutcome(calls[i].out, calls[j].out)

\* C5 as amended: for noisy, tough and truncated, two modifier calls with the
\* same given seed (a non-negative integer, or the whole-valued float of it),
\* the same f and the same x end alike: the same value returned, or the same
\* exception raised.
C5_SameGivenSeedSameOutcome ==
    UsesRng(feature) =>
        \A i, j \in ModifierCalls :
            (/\ calls[i].seed # PyNone
             /\ calls[j].seed # PyNone
             /\ PreprocessSeed(calls[i].seed) = PreprocessSeed(calls[j].seed))
            => SameOutcome(calls[i].out, calls[j].out)

C5_Witness ==
    /\ feature.name = "tough"
    /\ feature.options["rate_error"] = HalfRate
    /\ Len(calls) = 2
    /\ calls[1].seed = PyInt(1)
    /\ calls[2].seed = PyInt(1)
    /\ eval_f = PyWhole(5)
    /\ calls[1].out.value = PyNaN
    /\ calls[2].out.value = PyNaN

\* C7 as stated: for truncated with significant_digits 6 and any f > 0 the result
\* lies in [round(f, 5), round(f, 5) + 1e-5), for f < 0 in the mirrored interval;
\* with significant_digits 4 the width is 1e-3.
ClaimedDigits(feat) == feat.options["significant_digits"].n - 1
InClaimedInterval(f, v, digits) ==
    LET w == TenToMinus(digits)
        r == RoundTo(f.n, w)
    IN IF f.n > 0 THEN r <= v.n /\ v.n < r + w
       ELSE r - w < v.n /\ v.n <= r
C7_IntervalOfRoundFive ==
    (feature.name = "truncated" /\ IsFinite(eval_f) /\ eval_f.n # 0) =>
        \A i \in ModifierCalls :
            /\ calls[i].out.raised = "none"
            /\ InClaimedInterval(eval_f, calls[i].out.value, ClaimedDigits(feature))

\* C7 as amended: for truncated with significant_digits s and a finite f # 0, with
\* d = s - floor(log10(|f|)) - 1, the result lies in [round(f, d), round(f, d) +
\* 10^-d) for f > 0 and in the mirrored interval for f < 0; that is the interval
\* of round(f, s - 1) and width 10^-(s-1) (1e-5 for s = 6, 1e-3 for s = 4) exactly
\* for 1 <= |f| < 10.  The draw never flips the sign of a non-zero rounded value.
C7_IntervalOfSignificantDigits ==
    (feature.name = "truncated" /\ IsFinite(eval_f) /\ eval_f.n # 0) =>
        \A i \in ModifierCalls :
            LET s == feature.options["significant_digits"].n
                d == s - FloorLog10(eval_f) - 1
                v == calls[i].out.value
                r == RoundTo(eval_f.n, TenToMinus(d))
            IN /\ calls[i].out.raised = "none"
               /\ InClaimedInterval(eval_f, v, d)
               /\ (FloatScale <= Abs(eval_f.n) /\ Abs(eval_f.n) < 10 * FloatScale) =>
                    InClaimedInterval(eval_f, v, s - 1)
               /\ r > 0 => v.n > 0
               /\ r < 0 => v.n < 0

C7_Witness ==
    /\ feature.name = "truncated"
    /\ feature.options["significant_digits"] = PyInt(6)
    /\ eval_f = PyFloat(-123456789)
    /\ Len(calls) >= 1
    /\ calls[1].out.value = PyFloat(-123457000 - (TenToMinus(3) \div Levels))

\* the seeds the claim accepts: absent, a non-negative integer, or the
\* whole-valued float of one
SeedAsClaimed(seed) ==
    \/ seed = PyNone
    \/ seed.ty = "int" /\ seed.n >= 0
    \/ seed.ty = "float" /\ seed.k = "fin" /\ seed.n % FloatScale = 0 /\ seed.n >= 0

Sanitize(f) == IF f.k \in {"nan", "pinf"} THEN PyPosInf ELSE f
AtLeast(cv, bound) == cv.k = "pinf" \/ (cv.k = "fin" /\ cv.n >= bound)
AtMost(cv, bound) == cv.k = "ninf" \/ (cv.k = "fin" /\ cv.n <= bound)
InBand(cv) == cv.k = "fin" /\ CvFeasible < cv.n /\ cv.n < CvInfeasible

\* C8: element by element, the merit is +inf when cv >= 1e-6 whatever f is,
\* sanitize(f) + 1e8 * cv when 1e-12 < cv < 1e-6 and sanitize(f) when
\* cv <= 1e-12; every cv that is a number lies in exactly one band; no merit
\* value is NaN.
C8_MeritBands ==
    merit_array # NotComputed =>
        /\ DOMAIN merit_array = DOMAIN fun_values
        /\ \A i \in DOMAIN merit_array :
            LET f == fun_values[i]
                cv == maxcv_values[i]
                m == merit_array[i]
            IN /\ AtLeast(cv, CvInfeasible) => m = PyPosInf
               /\ InBand(cv) => m = FAdd(Sanitize(f), PyFloat(PenaltyPerUnit * cv.n))
               /\ AtMost(cv, CvFeasible) => m = Sanitize(f)
               /\ cv.k # "nan" =>
                    Cardinality({b \in {"infeasible", "band", "feasible"} :
                        \/ b = "infeasible" /\ AtLeast(cv, CvInfeasible)
                        \/ b = "band" /\ InBand(cv)
                        \/ b = "feasible" /\ AtMost(cv, CvFeasible)}) = 1
               /\ m.k # "nan"

C8_Witness ==
    /\ merit_array # NotComputed
    /\ Len(fun_values) = 2
    /\ fun_values = <<PyNegInf, PyNaN>>
    /\ maxcv_values = <<PyFloat(CvInfeasible), PyFloat(CvInfeasible - 1)>>
    /\ merit_array = <<PyPosInf, PyPosInf>>

\* C9: the scalar form on a pair (f, cv) returns what the array form returns on
\* the one-element arrays holding that pair; the scalar merit of (NaN, 0.0) is
\* +inf.
C9_ScalarEqualsArray ==
    (merit_array # NotComputed /\ merit_scalar # NotComputed /\ Len(fun_values) = 1) =>
        merit_scalar[1] = merit_array[1]

(***************************************************************************)
(* The work counts.                                                        *)
(***************************************************************************)
\* m <= max(tau * merit_init + (1 - tau) * merit_min, merit_min) with tau = 1 / p
\* and a finite merit_min, over the extended reals
ClaimedReached(m, p) ==
    \/ m.k = "ninf"
    \/ m.k = "fin" /\ m.n <= merit_min.n
    \/ merit_init.k = "pinf"
    \/ m.k = "fin" /\ merit_init.k = "fin" /\ p * m.n <= merit_init.n + (p - 1) * merit_min.n

\* C10: with a finite merit_min, for every run and every tolerance the work is
\* the 1-indexed position of the first evaluation whose merit is at most the
\* threshold (every earlier evaluation is above it and the position is within
\* the history), and it is unsolved (NaN) exactly when no evaluation of the run
\* is at most the threshold.
C10_WorkIsFirstCrossing ==
    IsFinite(merit_min) =>
        \A t \in DOMAIN work : \A r \in Runs :
            LET reached == {j \in 1 .. MaxEval :
                                ClaimedReached(merit_values[r][j], InverseTolerance(t))}
                w == work[t][r]
            IN IF reached = {} THEN w = PyNaN
               ELSE \E k \in reached :
                        /\ w = PyWhole(k)
                        /\ \A j \in 1 .. k - 1 : j \notin reached
                        /\ 1 <= k /\ k <= MaxEval

C10_Witness ==
    /\ IsFinite(merit_min)
    /\ Len(work) >= 2
    /\ \E r \in Runs :
        /\ work[1][r] = PyWhole(2)
        /\ work[2][r] = PyNaN
        /\ merit_values[r][1] = PyPosInf

\* C11: when merit_min is not finite (+inf or -inf), every run of the problem
\* is unsolved (NaN) at every tolerance, whatever its merit values are.
C11_NonFiniteMinNeverSolved ==
    ~IsFinite(merit_min) =>
        \A t \in DOMAIN work : \A r \in Runs : work[t][r] = PyNaN

\* the rank of a work count, unsolved above every count
WorkRank(w) == IF w.k = "nan" THEN MaxEval + 1 ELSE w.n \div FloatScale

\* C12: for every run and every two tolerances, the work at the stricter
\* (smaller) tolerance is never smaller than at the looser one, unsolved
\* ranking above every count; a run unsolved at the looser tolerance is unsolved
\* at the stricter one.
C12_WorkMonotoneInTolerance ==
    \A t1 \in DOMAIN work : \A t2 \in DOMAIN work : \A r \in Runs :
        InverseTolerance(t1) > InverseTolerance(t2) =>
            /\ WorkRank(work[t1][r]) >= WorkRank(work[t2][r])
            /\ work[t2][r] = PyNaN => work[t1][r] = PyNaN

C12_Witness ==
    /\ Len(work) = NTolerances
    /\ NumLt(merit_init, merit_min) \/ IsFinite(merit_min)
    /\ \E r1 \in Runs : \E r2 \in Runs :
        /\ work[1][r1] = PyWhole(1) /\ work[2][r1] = PyWhole(2)
        /\ work[1][r2] = PyWhole(1) /\ work[2][r2] = PyNaN

(***************************************************************************)
(* The configuration of a create_profiles call.                            *)
(***************************************************************************)
\* the feature options among the keyword arguments, in call order
RECURSIVE SuppliedFeatureOptions(_)
SuppliedFeatureOptions(kw) ==
    IF kw = <<>> THEN <<>>
    ELSE IF Lower(Head(kw)[1]) \in FeatureOptionKey
         THEN <<Head(kw)>> \o SuppliedFeatureOptions(Tail(kw))
         ELSE SuppliedFeatureOptions(Tail(kw))
\* the Feature the call configures: Feature(feature_name, **feature options)
Configured == FeatureInit(feature_name, SuppliedFeatureOptions(kwargs))

\* C2: once a problem is loaded, a solver is run or the solve step is reached,
\* the feature name and every supplied feature option have passed validation
\* (no configuration error is left to raise) and the Feature used for the
\* evaluations carries the supplied options.
C2_ConfiguredBeforeSolve ==
    (pc \in {"solve", "run", "solved"} \/ problems_loaded # <<>> \/ solver_runs # <<>>) =>
        /\ Configured.raised = "none"
        /\ feature = Configured

(***************************************************************************)
(* The profiles of a tolerance.                                            *)
(***************************************************************************)
Profiles == {perf, data}
Solvers == 1 .. NSolvers
AxisRuns == 1 .. n_runs
Problems == 1 .. Len(work_array)
\* the entries of a solver that no run solved, and the rows that hold them
UnsolvedEntries(s) == {pr \in Problems \X AxisRuns : work_array[pr[1]][s][pr[2]].k = "nan"}
UnsolvedRows(profile, s) == {i \in DOMAIN profile.built.x : profile.built.x[i][s].k # "fin"}
\* the sentinel of the claim: ratioMax squared, or twice ratioMax
ClaimedSentinel(profile) ==
    LET m == profile.built.ratio_max.n
    IN IF profile = perf
       THEN (IF profile.built.ratio_max = Eps THEN EpsSquared ELSE PyFloat(MulUnits(m, m)))
       ELSE PyFloat(2 * m)

\* C13: in the delivered x of both profiles every unsolved entry is at the
\* sentinel, the sentinel is finite and strictly greater than the ratio of
\* every solved entry, and an entry is unsolved exactly when its run has no
\* work count, whether or not another solver solved the problem.
C13_SentinelPastSolved ==
    axes_built >= 1 =>
        \A profile \in Profiles : \A s \in Solvers :
            /\ Cardinality(UnsolvedRows(profile, s)) = Cardinality(UnsolvedEntries(s))
            /\ \A i \in UnsolvedRows(profile, s) : profile.x[i + 1][s] = ClaimedSentinel(profile)
            /\ IsFinite(ClaimedSentinel(profile))
            /\ \A i \in DOMAIN profile.built.x : \A s2 \in Solvers :
                i \notin UnsolvedRows(profile, s2) =>
                    /\ profile.x[i + 1][s2] = profile.built.x[i][s2]
                    /\ NumLt(profile.x[i + 1][s2], ClaimedSentinel(profile))

\* C20: the delivered curve of every solver starts with the row x = 1
\* (performance) or x = 0 (data) at y = 0 for every run; with at least one
\* problem it ends with a row at the sentinel that repeats the last y; its x is
\* finite and non-decreasing from the first row to the last.
C20_BoundaryRowsAndOrder ==
    axes_built >= 1 =>
        \A profile \in Profiles : \A s \in Solvers :
            LET last == Len(profile.x)
            IN /\ profile.x[1][s] = IF profile = perf THEN PyWhole(1) ELSE PyFloat(0)
               /\ \A r \in AxisRuns : profile.y[1][s][r] = 0
               /\ Len(profile.y) = last
               /\ Problems # {} =>
                    /\ last = Len(profile.built.x) + 2
                    /\ profile.x[last][s] = ClaimedSentinel(profile)
                    /\ profile.y[last][s] = profile.y[last - 1][s]
               /\ \A i \in 1 .. last : IsFinite(profile.x[i][s])
               /\ \A i \in 1 .. last - 1 : NumLe(profile.x[i][s], profile.x[i + 1][s])

\* the ratio of a solved entry, from the work counts
RatioOf(profile, p, s, r) ==
    Divide(work_array[p][s][r],
           IF profile = perf
           THEN Least({work_array[p][s2][r] : s2 \in {s3 \in Solvers : work_array[p][s3][r].k # "nan"}})
           ELSE PyWhole(problem_dimensions[p] + 1))
\* the number of problems a solver solved in a run with ratio at most t
SolvedWithin(profile, s, r, t) ==
    Cardinality({p \in Problems :
        work_array[p][s][r].k # "nan" /\ NumLe(RatioOf(profile, p, s, r), t)})
\* the run a row of the sorted x came from
RunOfRow(profile, s, i) == ((profile.built.sort_x[s][i] - 1) \div Len(work_array)) + 1

\* C19: for every solver and run the y series returned by _profile_axes is
\* non-decreasing along the rows, takes values k / n_problems with
\* 0 <= k <= n_problems, rises by one problem at each row of the run and
\* repeats the previous value at the rows of other runs; at the last row with
\* x <= t, for a finite t, it is the fraction of the problems the solver solved
\* in the run with ratio <= t; rows of equal x keep their original order.
C19_StepFunction ==
    axes_built >= 1 =>
        \A profile \in Profiles : \A s \in Solvers :
            LET x == profile.built.x
                y == profile.built.y
                rows == DOMAIN x
                before(i, r) == IF i = 1 THEN 0 ELSE y[i - 1][s][r]
            IN /\ DOMAIN y = rows
               /\ \A r \in AxisRuns : \A i \in rows :
                    /\ y[i][s][r] \in 0 .. Len(work_array)
                    /\ y[i][s][r] >= before(i, r)
                    /\ y[i][s][r] = before(i, r) + (IF RunOfRow(profile, s, i) = r THEN 1 ELSE 0)
                    /\ (IsFinite(x[i][s]) /\ (i + 1 \in rows => NumLt(x[i][s], x[i + 1][s]))) =>
                            y[i][s][r] = SolvedWithin(profile, s, r, x[i][s])
               /\ \A i \in rows : \A j \in rows :
                    (i < j /\ x[i][s] = x[j][s]) =>
                        profile.built.sort_x[s][i] < profile.built.sort_x[s][j]

C19_Witness ==
    /\ axes_built >= 1
    /\ Len(work_array) = 1 /\ n_runs = 2
    /\ \E s \in Solvers :
        /\ IsFinite(perf.built.x[1][s])
        /\ perf.built.x[1][s] = perf.built.x[2][s]
        /\ perf.built.sort_x[s] = <<1, 2>>
        /\ perf.built.y[1][s] = <<1, 0>>
        /\ perf.built.y[2][s] = <<1, 1>>
        /\ data.built.sort_x[s] = <<1, 2>>

\* C14: the log-ratio sequence has one entry for each (problem, run):
\* log2(work0 / work1) when both solvers solved, +2 ratioMax when only solver 0
\* failed, -2 ratioMax when only solver 1 failed, 0 when both failed, ratioMax
\* being the largest absolute log-ratio of the both-solved entries, with a
\* strictly positive floor; an only-one-failed entry is strictly outside the
\* range of the both-solved entries; the sequence is sorted ascending; it is
\* all zeros when both solvers fail everywhere.
C14_LogRatioEntries ==
    axes_built = 2 =>
        LET rows == DOMAIN log_ratio.values
            entry(i) == work_array[((i - 1) \div n_runs) + 1]
            w0(i) == entry(i)[1][((i - 1) % n_runs) + 1]
            w1(i) == entry(i)[2][((i - 1) % n_runs) + 1]
            both == {i \in rows : w0(i).k # "nan" /\ w1(i).k # "nan"}
            m == log_ratio.ratio_max.n
            sorted == log_ratio.log_ratio
        IN /\ rows = 1 .. Len(work_array) * n_runs
           /\ m > 0
           /\ \A i \in both : Abs(log_ratio.values[i].n) <= m
           /\ both # {} => \E i \in both : Abs(log_ratio.values[i].n) = m \/ m = Eps.n
           /\ \A i \in rows :
                log_ratio.values[i] =
                    CASE i \in both -> PyFloat(Log2(w0(i)).n - Log2(w1(i)).n)
                      [] w0(i).k = "nan" /\ w1(i).k # "nan" -> PyFloat(2 * m)
                      [] w0(i).k # "nan" /\ w1(i).k = "nan" -> PyFloat(-(2 * m))
                      [] OTHER -> PyFloat(0)
           /\ \A i \in rows \ both : \A j \in both :
                (w0(i).k = "nan") # (w1(i).k = "nan") =>
                    Abs(log_ratio.values[i].n) > Abs(log_ratio.values[j].n)
           /\ (both = {} /\ \A i \in rows : w0(i).k = "nan" /\ w1(i).k = "nan") =>
                \A i \in rows : sorted[i] = PyFloat(0)
           /\ DOMAIN sorted = rows
           /\ \A i \in rows : i + 1 \in rows => sorted[i].n <= sorted[i + 1].n
           /\ \A v \in {log_ratio.values[i] : i \in rows} :
                Cardinality({i \in rows : sorted[i] = v})
                    = Cardinality({i \in rows : log_ratio.values[i] = v})

C14_Witness ==
    /\ axes_built = 2
    /\ Len(work_array) = 3 /\ n_runs = 1
    /\ log_ratio.values = <<PyFloat(FloatScale), PyFloat(-2 * FloatScale), PyFloat(2 * FloatScale)>>
    /\ log_ratio.log_ratio[1] = PyFloat(-2 * FloatScale)
    /\ work_array[2][2][1] = PyNaN


\* the sweep has loaded no problem; the profiles of a tolerance are built
NoProblemLoads == \A i \in DOMAIN ProblemNames : ~Loads(i)
ProfilesBuilt == pc = "work" /\ i_profile >= 1 /\ axes_built >= 1
NoneSolved ==
    \A p \in DOMAIN work_array : \A s \in Solvers : \A r \in AxisRuns :
        work_array[p][s][r] = PyNaN

\* C15: with zero problems (every problem failed to load) the assembly of the
\* arrays, the merit reduction, the work sweep and _profile_axes complete
\* without raising; the builder returns an empty curve, no data row and no
\* trailing sentinel row, with a strictly positive ratioMax; when problems exist
\* and no solver solves any of them the builder returns defined finite
\* coordinates and does not raise.
C15_NoProblemsNoRaise ==
    /\ NoProblemLoads =>
        /\ raised = "none"
        /\ solved # NotBuilt =>
            /\ solved.fun_values = <<>> /\ solved.maxcv_values = <<>>
            /\ solved.fun_init = <<>> /\ solved.maxcv_init = <<>>
            /\ solved.n_eval = <<>> /\ solved.problem_names = <<>>
            /\ solved.problem_dimensions = <<>>
            /\ solved.max_eval = 1
        /\ pc \in {"names", "work"} =>
            merit_values = <<>> /\ merit_init = <<>> /\ merit_min = <<>>
        /\ ProfilesBuilt =>
            /\ work_array = <<>>
            /\ \A profile \in Profiles :
                /\ profile.built.raised = "none"
                /\ profile.built.x = <<>> /\ profile.built.y = <<>>
                /\ Len(profile.x) = 1 /\ Len(profile.y) = 1
                /\ IsFinite(profile.built.ratio_max)
                /\ NumLt(PyFloat(0), profile.built.ratio_max)
    /\ (ProfilesBuilt /\ work_array # <<>> /\ NoneSolved) =>
        \A profile \in Profiles :
            /\ profile.built.raised = "none"
            /\ Len(profile.x) = Len(work_array) * n_runs + 2
            /\ IsFinite(profile.built.ratio_max)
            /\ \A i \in DOMAIN profile.x : \A s \in Solvers :
                /\ IsFinite(profile.x[i][s])
                /\ \A r \in AxisRuns : profile.y[i][s][r] \in 0 .. Len(work_array)

C15_Witness ==
    /\ NoProblemLoads
    /\ Len(ProblemNames) = 2
    /\ pc = "work" /\ i_profile = 2 /\ axes_built = 2
    /\ solved.max_eval = 1
    /\ perf.x = <<[s \in Solvers |-> PyWhole(1)]>>
    /\ data.x = <<[s \in Solvers |-> PyFloat(0)]>>
    /\ log_ratio.log_ratio = <<>>


\* the runs of a problem in the order of the loops: solvers, then runs
RunOrder == [i \in 1 .. NSolvers * NRuns |-> <<((i - 1) \div NRuns) + 1, ((i - 1) % NRuns) + 1>>]
\* entry j of the history of a run that recorded n evaluations of the solver
KeptThenRepeated(ValueAt(_, _, _), problem, i_solver, n, j) ==
    IF j <= n THEN ValueAt(problem, i_solver, j)
    ELSE IF n = 0 THEN PyNaN
    ELSE ValueAt(problem, i_solver, n)

\* C16: an exception raised inside a solver call, the simulated failure of the
\* tough feature or any other, ends only that run: no exception leaves
\* _solve_one, the evaluations recorded before it are kept in the history of
\* the run, the rest of the history repeats the last recorded (objective,
\* violation) pair and stays NaN when nothing was recorded, the other runs and
\* solvers of the problem are executed in the order of the loops, and the
\* result of the problem is returned to the sweep.
C16_FailureEndsOnlyRun ==
    /\ pc # "raised"
    /\ raised = "none"
    /\ pc = "run_one" => ENABLED SolveRun
    /\ solving # NotBuilt =>
        LET done == Len(solving.runs)
            max_eval == MaxEvalFactor * Dimension(solving.problem)
        IN /\ solving.runs = SubSeq(RunOrder, 1, done)
           /\ Len(solving.endings) = done /\ Len(solving.n_eval) = done
           /\ Len(solving.fun_values) = done /\ Len(solving.maxcv_values) = done
           /\ \A i \in 1 .. done :
                /\ solving.n_eval[i] \in 0 .. max_eval
                /\ DOMAIN solving.fun_values[i] = 1 .. max_eval
                /\ DOMAIN solving.maxcv_values[i] = 1 .. max_eval
                /\ \A j \in 1 .. max_eval :
                    /\ solving.fun_values[i][j] =
                        KeptThenRepeated(FunAt, solving.problem, solving.runs[i][1],
                                         solving.n_eval[i], j)
                    /\ solving.maxcv_values[i][j] =
                        KeptThenRepeated(MaxcvAt, solving.problem, solving.runs[i][1],
                                         solving.n_eval[i], j)
           /\ pc = "return_one" => done = NSolvers * NRuns
           /\ pc = "solve_one" =>
                /\ done = NSolvers * NRuns
                /\ results # <<>>
                /\ results[Len(results)] # PyNone
                /\ results[Len(results)].problem_name = solving.problem_name
                /\ results[Len(results)].n_eval = solving.n_eval
                /\ results[Len(results)].fun_values = solving.fun_values
                /\ results[Len(results)].maxcv_values = solving.maxcv_values

C16_Witness ==
    /\ pc = "solve_one"
    /\ solving # NotBuilt
    /\ solving.problem = "B"
    /\ solving.endings = <<"simulated", "raised">>
    /\ solving.n_eval = <<1, 0>>
    /\ solving.fun_values = <<<<FunAt("B", 1, 1), FunAt("B", 1, 1)>>, <<PyNaN, PyNaN>>>>
    /\ results[Len(results)].problem_name = "B"
    /\ results[Len(results)].n_eval = <<1, 0>>


\* what _solve_one holds of a run once the solver call is over
Observed(i) == <<solving.n_eval[i], solving.fun_values[i], solving.maxcv_values[i]>>

\* C17: a run that ended by the simulated failure of the tough feature and a
\* run that ended because the solver itself raised leave different outcomes
\* with _solve_one, so that the two cases can be recorded differently.
C17_SimulatedFailureDistinct ==
    solving # NotBuilt =>
        \A i \in DOMAIN solving.endings : \A j \in DOMAIN solving.endings :
            (solving.endings[i] = "simulated" /\ solving.endings[j] = "raised") =>
                Observed(i) # Observed(j)


\* the name under which problem i of the listing is solved: its CUTEst name, or
\* EXTRA1 for the one extra problem
ListedName(i) == IF ProblemNames[i].ty = "Problem" THEN "EXTRA1" ELSE ProblemNames[i].s

\* C18: a problem whose load fails is skipped, the sweep is not aborted, and the
\* problem is in no result array; the value arrays, the initial values, the
\* dimensions, the evaluation counts and the names written to the problems file
\* hold exactly the problems that loaded, in the order of the listing (CUTEst
\* names, then extra problems), each problem at the same index in all of them.
C18_LoadedProblemsAligned ==
    /\ raised = "none"
    /\ pc # "raised"
    /\ Len(results) <= Len(ProblemNames)
    /\ \A i \in DOMAIN results : (results[i] = PyNone) <=> ~Loads(i)
    /\ solved # NotBuilt =>
        LET n_loaded == Cardinality({i \in DOMAIN ProblemNames : Loads(i)})
        IN /\ Len(solved.problem_names) = n_loaded
           /\ Len(solved.problem_dimensions) = n_loaded
           /\ Len(solved.fun_init) = n_loaded /\ Len(solved.maxcv_init) = n_loaded
           /\ Len(solved.fun_values) = n_loaded /\ Len(solved.maxcv_values) = n_loaded
           /\ Len(solved.n_eval) = n_loaded
           /\ \A i \in DOMAIN ProblemNames :
                Loads(i) =>
                    LET p == Place(i)
                        problem == ProblemNames[i].s
                    IN /\ solved.problem_names[p] = ListedName(i)
                       /\ solved.problem_dimensions[p] = Dimension(problem)
                       /\ solved.fun_init[p] = FunInit(problem)
                       /\ solved.maxcv_init[p] = MaxcvInit(problem)
                       /\ \A k \in 1 .. NSolvers * NRuns :
                            /\ solved.n_eval[p][k] \in 0 .. MaxEvalFactor * Dimension(problem)
                            /\ \A j \in 1 .. solved.max_eval :
                                /\ solved.fun_values[p][k][j] =
                                    KeptThenRepeated(FunAt, problem, RunOrder[k][1],
                                                     solved.n_eval[p][k], j)
                                /\ solved.maxcv_values[p][k][j] =
                                    KeptThenRepeated(MaxcvAt, problem, RunOrder[k][1],
                                                     solved.n_eval[p][k], j)
           /\ pc = "work" => problems_txt = solved.problem_names

C18_Witness ==
    /\ pc = "work"
    /\ Len(ProblemNames) = 3
    /\ loadable = {"B"}
    /\ results[1] = PyNone
    /\ solved.problem_names = <<"B", "EXTRA1">>
    /\ problems_txt = <<"B", "EXTRA1">>
    /\ solved.problem_dimensions = <<2, 1>>
    /\ solved.fun_init = <<FunInit("B"), FunInit("E")>>
    /\ solved.n_eval = <<<<2, 1>>, <<1, 0>>>>
    /\ solved.fun_values[2][1] = <<FunAt("E", 1, 1), FunAt("E", 1, 1)>>


\* the runs of the problem whose merit value is +inf at every evaluation
InfiniteRuns == {r \in Runs : \A j \in 1 .. MaxEval : merit_values[r][j] = PyPosInf}

\* C21: a run whose merit value is +inf at every evaluation is unsolved (NaN)
\* at every tolerance, whatever merit_init and merit_min of its problem are,
\* also when the initial point has merit +inf and another run reached a finite
\* merit value.
C21_InfiniteRunUnsolved ==
    \A t \in DOMAIN work : \A r \in InfiniteRuns : work[t][r] = PyNaN


\* what the claim has the noisy feature return for the sample 1.0 of the
\* distribution lambda rng: 1.0
ClaimedNoisy(type, f) ==
    IF Lower(type) = "absolute" THEN FAdd(f, PyWhole(1))
    ELSE FMul(f, FAdd(PyWhole(1), PyWhole(1)))

\* C22: every type string that Feature.__init__ accepts as 'absolute', whatever
\* its letter case, makes modifier return f + sample, and every string accepted
\* as 'relative' makes it return f * (1 + sample).
C22_NoiseTypeAnyCase ==
    (feature.name = "noisy" /\ feature.options["distribution"] = ConstOne) =>
        \A i \in DOMAIN calls :
            (calls[i].kind = "modifier" /\ calls[i].out.raised = "none") =>
                calls[i].out.value = ClaimedNoisy(feature.options["type"].s, eval_f)

=============================================================================
